---- MODULE Spec2Model ----
(***************************************************************************)
(* Verification model of bolt.diy's chart and analytics layer.              *)
(*                                                                         *)
(* Part 1: the chart type advisor, detectChartType of                      *)
(* lib/utils/chartDetection (src/unnamed/part_005).  It is a pure function *)
(* of an array of time series points; the model draws the array from a     *)
(* bounded family of inputs and applies the function in one step.          *)
(*                                                                         *)
(* Numbers.  The code computes means and standard deviations in IEEE       *)
(* doubles.  The model keeps values and timestamps integral and decides    *)
(* every comparison of the code exactly, after multiplying both sides by   *)
(* the (positive) denominators, so that no division and no square root is  *)
(* left.  Each such rewriting is spelled out at the operator.              *)
(***************************************************************************)
EXTENDS Integers, Sequences, FiniteSets, TLC

VARIABLES
    \* detectChartType
    dataAbsent,   \* TRUE: detectChartType is called with null / undefined
    data,         \* the argument array of TimeSeriesDataPoint
    suggestions,  \* the array detectChartType returned (<<>> before the call)
    pc,           \* "call" before detectChartType ran, "returned" after
    \* aggregateTimeSeriesData
    aggArg,       \* the array as the caller passed it (kept for comparison)
    aggData,      \* the caller's array as the call left it
    aggregation,  \* the granularity of the call ("none" before a call)
    aggGroups,    \* groupedData at the end of the loop, in insertion order
    aggResult,    \* the array returned
    aggPc,        \* "call", "returned", "recall", "rereturned"
    \* the analytics singleton (AnalyticsMiddleware; fields without their "_")
    isBrowser,           \* typeof window !== 'undefined'
    events,              \* _events: the queue, events are numbered as tracked
    isTrackingEnabled,   \* _isTrackingEnabled
    flushInterval,       \* _flushInterval: "null" or "timer"
    liveTimers,          \* number of setInterval timers not cleared
    trackEventCallback,  \* _trackEventCallback: [kind, closure]
    isInitialized,       \* _isInitialized
    nextEvent,           \* number of the next event passed to trackEvent
    flushes,             \* the flush calls that reached the try block
    delivered,           \* every event passed to a callback, in order
    \* the analytics bridge (useAnalyticsBridge)
    bridgeEffect,        \* [state, closure] of the effect
    closures,            \* per effect run: [pendingEvents, batchSize]
    forwarded,           \* the batches handed to the persistence layer
    lastCleanup,         \* what the last cleanup found and forwarded
    anPc,                \* "run" in the analytics specification
    \* detectOutliers
    outData,      \* the argument array
    outCount,     \* the number returned (0 before the call)
    outPc,        \* "call", "returned"
    \* detectFrameworkFromPackageJson
    packageJson,  \* the argument: [absent, dependencies, devDependencies,
                  \* peerDependencies]
    framework,    \* the Framework returned ("none" before the call)
    fwPc,         \* "call", "returned"
    \* the Supabase connection store and useSupabaseConnection
    HAS_MANAGED_SUPABASE,  \* the constant of managed-client.ts
    supabaseConnection,    \* the value of the atom, a JavaScript object
    localStorage,          \* key -> text, for the keys that are there
    isConnecting,          \* atom
    isFetchingStats,       \* atom
    isFetchingApiKeys,     \* atom
    requests,              \* the fetches awaiting their response
    lastUpdate,            \* the last updateSupabaseConnection call
    supPc,                 \* "run" in the connection specification
    \* useTimeSeriesData
    tsOptions,     \* the options of the last render (a version number)
    tsConnected,   \* supabase && isConnected of useManagedSupabase
    tsData,        \* data: [fetch, options] of the fetch that set it
    loading,       \* loading
    tsError,       \* error: 0 for null, else the fetch that failed
    tableCreated,  \* tableCreated
    fetches,       \* the fetchData / refetch calls that reached their try
                   \* block, in the order they started, each with its stage
    enableRealtime,  \* the prop of TimeSeriesChart
    tsPc           \* "run" in the time series specification

chartVars == <<dataAbsent, data, suggestions, pc>>
aggVars == <<aggArg, aggData, aggregation, aggGroups, aggResult, aggPc>>
middlewareVars ==
    <<isBrowser, events, isTrackingEnabled, flushInterval, liveTimers,
      trackEventCallback, isInitialized, nextEvent, flushes, delivered>>
bridgeVars == <<bridgeEffect, closures, forwarded, lastCleanup>>
anVars == <<middlewareVars, bridgeVars, anPc>>
outVars == <<outData, outCount, outPc>>
fwVars == <<packageJson, framework, fwPc>>
supVars ==
    <<HAS_MANAGED_SUPABASE, supabaseConnection, localStorage, isConnecting,
      isFetchingStats, isFetchingApiKeys, requests, lastUpdate, supPc>>
tsVars ==
    <<tsOptions, tsConnected, tsData, loading, tsError, tableCreated, fetches,
      enableRealtime, tsPc>>
laterVars == <<supVars, tsVars>>
moreVars == <<outVars, fwVars, laterVars>>
vars == <<chartVars, aggVars, anVars, moreVars>>

\* The parts of the state a specification does not use stay parked.
ChartParked ==
    /\ dataAbsent = FALSE /\ data = <<>> /\ suggestions = <<>> /\ pc = "parked"

AggParked ==
    /\ aggArg = <<>> /\ aggData = <<>> /\ aggregation = "none"
    /\ aggGroups = <<>> /\ aggResult = <<>> /\ aggPc = "parked"

\* No cleanup of the bridge's effect has run.
NoCleanup ==
    [ran |-> FALSE, pending |-> <<>>, batchSize |-> 0, forwarded |-> <<>>,
     left |-> <<>>]

AnalyticsParked ==
    /\ isBrowser = FALSE /\ events = <<>> /\ isTrackingEnabled = TRUE
    /\ flushInterval = "null" /\ liveTimers = 0
    /\ trackEventCallback = [kind |-> "none", closure |-> 0]
    /\ isInitialized = FALSE /\ nextEvent = 1 /\ flushes = <<>>
    /\ delivered = <<>>
    /\ bridgeEffect = [state |-> "none", closure |-> 0]
    /\ closures = <<>> /\ forwarded = <<>>
    /\ lastCleanup = NoCleanup
    /\ anPc = "parked"

OutParked == outData = <<>> /\ outCount = 0 /\ outPc = "parked"

\* A field of package.json that is not there.
NoDeps == [present |-> FALSE, names |-> {}]

FwParked ==
    /\ packageJson = [absent |-> TRUE, dependencies |-> NoDeps,
                      devDependencies |-> NoDeps, peerDependencies |-> NoDeps]
    /\ framework = "none" /\ fwPc = "parked"

\* No updateSupabaseConnection call has been made.
NoUpdate == [called |-> FALSE, skipped |-> FALSE, connection |-> <<>>]

SupParked ==
    /\ HAS_MANAGED_SUPABASE = FALSE /\ supabaseConnection = <<>>
    /\ localStorage = <<>>
    /\ isConnecting = FALSE /\ isFetchingStats = FALSE
    /\ isFetchingApiKeys = FALSE
    /\ requests = <<>> /\ lastUpdate = NoUpdate /\ supPc = "parked"

\* data before any fetch has set it: useState([]).
NoData == [fetch |-> 0, options |-> 0]

TsParked ==
    /\ tsOptions = 0 /\ tsConnected = FALSE /\ tsData = NoData
    /\ loading = TRUE /\ tsError = 0 /\ tableCreated = FALSE
    /\ fetches = <<>> /\ enableRealtime = FALSE
    /\ tsPc = "parked"

LaterParked == SupParked /\ TsParked
MoreParked == OutParked /\ FwParked /\ LaterParked

----------------------------------------------------------------------------
(* Bounds and input alphabets *)

\* Longest input array.  15 distinct categories need 15 points, three
\* outliers need 14.
MaxLen == 16

\* Values a point can take: a negative one, zero, a small and a large one.
Levels == {-10, 0, 10, 100}

\* Per-point increment of a ramp (0: flat segments).
Steps == {0, 1}

\* Lengths of the leading and of the trailing segment of a value profile.
HeadLens == {0, 1}
TailLens == {0, 1, 2}

\* <<jump, dir>>: the interval between the first two points is jump * dir,
\* every other interval is dir.  dir = -1 is orderDirection 'desc'.
TimeProfiles == {<<1, 1>>, <<2, 1>>, <<5, 1>>, <<1, -1>>}

----------------------------------------------------------------------------
(* Generic helpers *)

Abs(x) == IF x < 0 THEN -x ELSE x

RECURSIVE SumSeq(_)
\* Array.prototype.reduce((sum, x) => sum + x, 0)
SumSeq(s) == IF s = <<>> THEN 0 ELSE Head(s) + SumSeq(Tail(s))

\* data.slice(from0) and data.slice(from0, to0) with 0-based, end-exclusive
\* indices, as in JavaScript.
Slice(s, from0, to0) == SubSeq(s, from0 + 1, to0)

\* data.map((point) => point.value)
ValuesOf(pts) == [i \in 1..Len(pts) |-> pts[i].value]

----------------------------------------------------------------------------
(* The input family *)

\* A category is a string; it is modelled as a sequence, <<>> being the
\* empty string (falsy, like an absent category) and <<c>> a name.
NoCategory == <<>>

\* Value of point i (1-based) of an array of n points: a leading segment of
\* h points at level lo, a trailing segment of t points at level hi, level
\* mid between them, plus step for each point before it.
ProfileValue(n, i, lo, mid, hi, h, t, step) ==
    (IF i <= h THEN lo ELSE IF i > n - t THEN hi ELSE mid) + step * (i - 1)

\* Timestamp (in ms) of point i.
ProfileTime(i, tp) ==
    IF i = 1 THEN 0 ELSE tp[2] * (tp[1] + (i - 2))

\* Category of point i: names 1..k in turn, then one point without
\* category, and again; k = 0 gives no category at all.
ProfileCategory(i, k) ==
    LET r == i % (k + 1) IN IF r = 0 THEN NoCategory ELSE <<r>>

MkData(n, lo, mid, hi, h, t, step, tp, k) ==
    [i \in 1..n |->
        [timestamp |-> ProfileTime(i, tp),
         value     |-> ProfileValue(n, i, lo, mid, hi, h, t, step),
         category  |-> ProfileCategory(i, k)]]

\* data is one array of the input family.
IsInput(pts) ==
    \E n \in 0..MaxLen, lo \in Levels, mid \in Levels, hi \in Levels,
       h \in HeadLens, t \in TailLens, step \in Steps,
       tp \in TimeProfiles :
        \E k \in 0..n :
            pts = MkData(n, lo, mid, hi, h, t, step, tp, k)

----------------------------------------------------------------------------
(* chartDetection: the analysis helpers *)

\* detectTrend with an added guard that calls a first third of mean 0 "no
\* trend".
detectTrendZeroGuard(pts) ==
    LET n == Len(pts) IN
    IF n < 6 THEN FALSE
    ELSE
        LET firstThird == Slice(pts, 0, n \div 3)
            lastThird  == Slice(pts, (2 * n) \div 3, n)
            S1 == SumSeq(ValuesOf(firstThird))
            n1 == Len(firstThird)
            S2 == SumSeq(ValuesOf(lastThird))
            n2 == Len(lastThird)
        IN  S1 # 0 /\ 10 * Abs(S2 * n1 - S1 * n2) > S1 * n2

\* detectTrend that asks for more than 6 points (n <= 6 for n < 6).
detectTrendOverSix(pts) ==
    LET n == Len(pts) IN
    IF n <= 6 THEN FALSE
    ELSE
        LET firstThird == Slice(pts, 0, n \div 3)
            lastThird  == Slice(pts, (2 * n) \div 3, n)
            S1 == SumSeq(ValuesOf(firstThird))
            n1 == Len(firstThird)
            S2 == SumSeq(ValuesOf(lastThird))
            n2 == Len(lastThird)
        IN  10 * Abs(S2 * n1 - S1 * n2) > S1 * n2

\* detectTrend.  With S1, n1 the sum and length of the first third and S2,
\* n2 those of the last third, the code returns
\*     |S2/n2 - S1/n1| > (S1/n1) * 0.1.
\* n1, n2 > 0 because n >= 6; multiplying by 10 * n1 * n2 gives
\*     10 * |S2 * n1 - S1 * n2| > S1 * n2.
detectTrend(pts) ==
    LET n == Len(pts) IN
    IF n < 6 THEN FALSE
    ELSE
        LET firstThird == Slice(pts, 0, n \div 3)
            lastThird  == Slice(pts, (2 * n) \div 3, n)
            S1 == SumSeq(ValuesOf(firstThird))
            n1 == Len(firstThird)
            S2 == SumSeq(ValuesOf(lastThird))
            n2 == Len(lastThird)
        IN  10 * Abs(S2 * n1 - S1 * n2) > S1 * n2

\* The intervals array of isTimeEventlyDistributed.
Intervals(pts) ==
    [j \in 1..(Len(pts) - 1) |-> pts[j + 1].timestamp - pts[j].timestamp]

\* isTimeEventlyDistributed.  With m intervals d of sum D, avgInterval is
\* D/m, variance is SUM (d - D/m)^2 / m = SSD / m^3 for
\* SSD = SUM (m*d - D)^2, and the code returns
\*     sqrt(variance) < (D/m) * 0.3.
\* The left side is >= 0, so this needs D > 0, and then both sides can be
\* squared: SSD / m^3 < 9 * D^2 / (100 * m^2), i.e. 100 * SSD < 9 * D^2 * m.
isTimeEventlyDistributed(pts) ==
    IF Len(pts) < 3 THEN TRUE
    ELSE
        LET intervals == Intervals(pts)
            m   == Len(intervals)
            D   == SumSeq(intervals)
            Dev2(d) == (m * d - D) * (m * d - D)
            SSD == SumSeq([j \in 1..m |-> Dev2(intervals[j])])
        IN  D > 0 /\ 100 * SSD < 9 * D * D * m

\* countUniqueCategories: the size of the set of truthy categories, or 1.
countUniqueCategories(pts) ==
    LET categories ==
            {pts[i].category : i \in {j \in 1..Len(pts) : pts[j].category # NoCategory}}
    IN  IF Cardinality(categories) # 0 THEN Cardinality(categories) ELSE 1

RECURSIVE MinSeq(_, _)
\* forEach: min = Math.min(min, point.value), started at acc
MinSeq(acc, s) ==
    IF s = <<>> THEN acc
    ELSE MinSeq(IF Head(s) < acc THEN Head(s) ELSE acc, Tail(s))

RECURSIVE MaxSeq(_, _)
\* forEach: max = Math.max(max, point.value), started at acc
MaxSeq(acc, s) ==
    IF s = <<>> THEN acc
    ELSE MaxSeq(IF Head(s) > acc THEN Head(s) ELSE acc, Tail(s))

\* calculateValueRange.  The loop starts at min = Infinity, max = -Infinity;
\* on a non-empty array the first point replaces both, so the fold is
\* started at the first value.
calculateValueRange(pts) ==
    IF Len(pts) = 0 THEN [min |-> 0, max |-> 0, range |-> 0]
    ELSE
        LET values == ValuesOf(pts)
            mn == MinSeq(Head(values), Tail(values))
            mx == MaxSeq(Head(values), Tail(values))
        IN  [min |-> mn, max |-> mx, range |-> mx - mn]

\* detectOutliers with >= for >: a value at exactly two standard deviations
\* is counted.
detectOutliersFromTwo(pts) ==
    IF Len(pts) < 4 THEN 0
    ELSE
        LET values == ValuesOf(pts)
            n   == Len(values)
            S   == SumSeq(values)
            Dev2(v) == (n * v - S) * (n * v - S)
            SSD == SumSeq([i \in 1..n |-> Dev2(values[i])])
            outliers == {i \in 1..n : n * Dev2(values[i]) >= 4 * SSD}
        IN  Cardinality(outliers)

\* detectOutliers.  With n values v of sum S, avg is S/n, variance is
\* SSD / n^3 for SSD = SUM (n*v - S)^2, and a value is counted when
\*     |v - S/n| > 2 * sqrt(variance).
\* Both sides are >= 0; squared and multiplied by n^3:
\*     n * (n*v - S)^2 > 4 * SSD.
detectOutliers(pts) ==
    IF Len(pts) < 4 THEN 0
    ELSE
        LET values == ValuesOf(pts)
            n   == Len(values)
            S   == SumSeq(values)
            Dev2(v) == (n * v - S) * (n * v - S)
            SSD == SumSeq([i \in 1..n |-> Dev2(values[i])])
            outliers == {i \in 1..n : n * Dev2(values[i]) > 4 * SSD}
        IN  Cardinality(outliers)

----------------------------------------------------------------------------
(* chartDetection: the suggestions *)

Suggestion(type, confidence) == [type |-> type, confidence |-> confidence]

\* The array returned for an empty or absent input.
DefaultSuggestions == <<Suggestion("line", 80)>>

\* The line confidence with the two tests of the conditional swapped.
LineSuggestionsEvenFirst(hasTrend, isEventlyDistributed) ==
    <<Suggestion("line", IF isEventlyDistributed THEN 85
                         ELSE IF hasTrend THEN 90 ELSE 70)>>

\* suggestions.push({type: 'line', ...}): always pushed.
LineSuggestions(hasTrend, isEventlyDistributed) ==
    <<Suggestion("line", IF hasTrend THEN 90
                         ELSE IF isEventlyDistributed THEN 85 ELSE 70)>>

\* The bar rule with uniqueCategories <= 15 for < 15.
BarSuggestionsUpTo15(uniqueCategories) ==
    IF uniqueCategories > 1 /\ uniqueCategories <= 15
    THEN <<Suggestion("bar", IF uniqueCategories > 3 THEN 85 ELSE 70)>>
    ELSE <<>>

BarSuggestions(uniqueCategories) ==
    IF uniqueCategories > 1 /\ uniqueCategories < 15
    THEN <<Suggestion("bar", IF uniqueCategories > 3 THEN 85 ELSE 70)>>
    ELSE <<>>

\* The pie rule with uniqueCategories < 7 for <= 7.
PieSuggestionsBelow7(uniqueCategories) ==
    IF uniqueCategories > 1 /\ uniqueCategories < 7
    THEN <<Suggestion("pie", IF uniqueCategories <= 5 THEN 75 ELSE 60)>>
    ELSE <<>>

PieSuggestions(uniqueCategories) ==
    IF uniqueCategories > 1 /\ uniqueCategories <= 7
    THEN <<Suggestion("pie", IF uniqueCategories <= 5 THEN 75 ELSE 60)>>
    ELSE <<>>

\* The area rule with min > 0 for min >= 0.
AreaSuggestionsPositiveOnly(hasTrend, valueRange) ==
    IF hasTrend /\ valueRange.min > 0
    THEN <<Suggestion("area", 75)>>
    ELSE <<>>

AreaSuggestions(hasTrend, valueRange) ==
    IF hasTrend /\ valueRange.min >= 0
    THEN <<Suggestion("area", 75)>>
    ELSE <<>>

\* The scatter rule with outlierCount >= 2 for > 2.
ScatterSuggestionsFromTwo(isEventlyDistributed, outlierCount) ==
    IF ~isEventlyDistributed \/ outlierCount >= 2
    THEN <<Suggestion("scatter", IF outlierCount >= 2 THEN 80 ELSE 65)>>
    ELSE <<>>

ScatterSuggestions(isEventlyDistributed, outlierCount) ==
    IF ~isEventlyDistributed \/ outlierCount > 2
    THEN <<Suggestion("scatter", IF outlierCount > 2 THEN 80 ELSE 65)>>
    ELSE <<>>

RECURSIVE InsertBeforeEqual(_, _)
\* An insertion that puts x in front of the elements of equal confidence:
\* the result of a sort that is not stable.
InsertBeforeEqual(sorted, x) ==
    IF sorted = <<>> THEN <<x>>
    ELSE IF Head(sorted).confidence > x.confidence
         THEN <<Head(sorted)>> \o InsertBeforeEqual(Tail(sorted), x)
         ELSE <<x>> \o sorted

RECURSIVE InsertByConfidence(_, _)
\* x placed behind every element whose confidence is >= its own: an element
\* never passes one the comparator b.confidence - a.confidence calls equal.
InsertByConfidence(sorted, x) ==
    IF sorted = <<>> THEN <<x>>
    ELSE IF Head(sorted).confidence >= x.confidence
         THEN <<Head(sorted)>> \o InsertByConfidence(Tail(sorted), x)
         ELSE <<x>> \o sorted

RECURSIVE InsertAscending(_, _)
InsertAscending(sorted, x) ==
    IF sorted = <<>> THEN <<x>>
    ELSE IF Head(sorted).confidence <= x.confidence
         THEN <<Head(sorted)>> \o InsertAscending(Tail(sorted), x)
         ELSE <<x>> \o sorted

RECURSIVE SortAscending(_)
\* The sort with the comparator a.confidence - b.confidence.
SortAscending(s) ==
    IF s = <<>> THEN <<>>
    ELSE InsertAscending(SortAscending(SubSeq(s, 1, Len(s) - 1)), s[Len(s)])

RECURSIVE SortByConfidence(_)
\* suggestions.sort((a, b) => b.confidence - a.confidence).
\* Array.prototype.sort is stable (ECMAScript 2019), so the result is the
\* one of a stable insertion sort.
SortByConfidence(s) ==
    IF s = <<>> THEN <<>>
    ELSE InsertByConfidence(SortByConfidence(SubSeq(s, 1, Len(s) - 1)), s[Len(s)])

\* The suggestions array as pushed, before the sort.
Pushed(pts) ==
    LET hasTrend             == detectTrend(pts)
        isEventlyDistributed == isTimeEventlyDistributed(pts)
        uniqueCategories     == countUniqueCategories(pts)
        valueRange           == calculateValueRange(pts)
        outlierCount         == detectOutliers(pts)
    IN  LineSuggestions(hasTrend, isEventlyDistributed)
        \o BarSuggestions(uniqueCategories)
        \o PieSuggestions(uniqueCategories)
        \o AreaSuggestions(hasTrend, valueRange)
        \o ScatterSuggestions(isEventlyDistributed, outlierCount)

\* detectChartType whose guard tests !data only, not data.length === 0.
detectChartTypeNullOnly(absent, pts) ==
    IF absent THEN DefaultSuggestions
    ELSE SortByConfidence(Pushed(pts))

\* detectSeasonalPattern is also called; its result is not used and it has
\* no effect.  The reason strings are left out.
detectChartType(absent, pts) ==
    IF absent \/ Len(pts) = 0 THEN DefaultSuggestions
    ELSE SortByConfidence(Pushed(pts))

----------------------------------------------------------------------------
(* The state machine of one call *)

ChartInit ==
    /\ dataAbsent \in BOOLEAN
    /\ IF dataAbsent THEN data = <<>> ELSE IsInput(data)
    /\ suggestions = <<>>
    /\ pc = "call"
    /\ AggParked
    /\ AnalyticsParked
    /\ MoreParked

\* One call detectChartType(data) of the exported function.
Detect ==
    /\ pc = "call"
    /\ suggestions' = detectChartType(dataAbsent, data)
    /\ pc' = "returned"
    /\ UNCHANGED <<dataAbsent, data>>
    /\ UNCHANGED <<aggVars, anVars, moreVars>>

ChartNext == Detect

SpecChart == ChartInit /\ [][ChartNext]_vars

----------------------------------------------------------------------------
(* Vocabulary of the properties *)

Returned == pc = "returned"

NonEmptyInput == ~dataAbsent /\ Len(data) > 0

\* Positions of the suggestions of a type in the returned array.
Positions(type) == {i \in 1..Len(suggestions) : suggestions[i].type = type}

Emitted(type) == Positions(type) # {}

\* The type is returned exactly once, with this confidence.
EmittedOnceAt(type, confidence) ==
    /\ Cardinality(Positions(type)) = 1
    /\ \A i \in Positions(type) : suggestions[i].confidence = confidence

\* Number of distinct non-empty categories of the input, 1 when there is none.
DistinctCategories ==
    LET names == {c \in {data[i].category : i \in 1..Len(data)} : c # NoCategory}
    IN  IF names = {} THEN 1 ELSE Cardinality(names)

AllValuesNonNegative == \A i \in 1..Len(data) : data[i].value >= 0

StrictlyIncreasing == \A i \in 1..(Len(data) - 1) : data[i].value < data[i + 1].value

\* Sums of the values of the first and of the last third (n >= 6), whose
\* lengths are FirstLen and LastLen.
FirstLen == Len(data) \div 3
LastLen == Len(data) - (2 * Len(data)) \div 3
FirstSum == SumSeq([i \in 1..FirstLen |-> data[i].value])
LastSum == SumSeq([i \in 1..LastLen |-> data[(2 * Len(data)) \div 3 + i].value])

\* Order in which detectChartType pushes the types.
PushRank(type) ==
    CASE type = "line" -> 1
      [] type = "bar" -> 2
      [] type = "pie" -> 3
      [] type = "area" -> 4
      [] type = "scatter" -> 5

----------------------------------------------------------------------------
(* C1 .. C10: detectChartType *)

\* C1: for every non-empty input the returned list is non-empty, its
\* confidences do not increase from first to last, and each confidence is an
\* integer in 0..100.
C1_RankedList ==
    (Returned /\ NonEmptyInput) =>
        /\ Len(suggestions) >= 1
        /\ \A i \in 1..Len(suggestions) : \A j \in i..Len(suggestions) :
               suggestions[i].confidence >= suggestions[j].confidence
        /\ \A i \in 1..Len(suggestions) : suggestions[i].confidence \in 0..100

\* All five types are returned and the sort had to move one of them.
C1_Witness ==
    /\ Returned /\ NonEmptyInput
    /\ Len(suggestions) = 5
    /\ suggestions # Pushed(data)

\* C2: for an empty or absent input exactly one suggestion is returned, line
\* with confidence 80, and nothing else.
C2_EmptyDefault ==
    (Returned /\ ~NonEmptyInput) => suggestions = <<Suggestion("line", 80)>>

C2_Witness ==
    /\ Returned /\ ~dataAbsent /\ data = <<>>
    /\ suggestions = <<Suggestion("line", 80)>>

\* C3: for every non-empty input exactly one line suggestion is returned; its
\* confidence is 90 with a trend, otherwise 85 with evenly distributed
\* timestamps, otherwise 70.
C3_Line ==
    (Returned /\ NonEmptyInput) =>
        EmittedOnceAt("line",
            IF detectTrend(data) THEN 90
            ELSE IF isTimeEventlyDistributed(data) THEN 85 ELSE 70)

\* A trend on evenly distributed timestamps: 90 wins over 85.
C3_Witness ==
    /\ Returned /\ NonEmptyInput
    /\ detectTrend(data) /\ isTimeEventlyDistributed(data)
    /\ EmittedOnceAt("line", 90)

\* C4: scatter is returned iff the timestamps are not evenly distributed or
\* there are more than 2 outliers; its confidence is 80 with more than 2
\* outliers and 65 otherwise.  So with exactly 2 outliers it is returned, at
\* 65, when the timestamps are uneven, and not returned when they are even.
C4_Scatter ==
    Returned =>
        LET uneven   == ~isTimeEventlyDistributed(data)
            outliers == detectOutliers(data)
        IN  /\ Emitted("scatter") <=> (uneven \/ outliers > 2)
            /\ Emitted("scatter") =>
                   EmittedOnceAt("scatter", IF outliers > 2 THEN 80 ELSE 65)
            /\ (outliers = 2 /\ uneven) => EmittedOnceAt("scatter", 65)
            /\ (outliers = 2 /\ ~uneven) => ~Emitted("scatter")

C4_Witness ==
    /\ Returned
    /\ detectOutliers(data) = 2
    /\ ~isTimeEventlyDistributed(data)
    /\ EmittedOnceAt("scatter", 65)

\* C5: with k the number of distinct non-empty categories (1 when there is
\* none), bar is returned iff 1 < k < 15, at 85 when k > 3 and at 70
\* otherwise; 5 distinct categories give bar at 85.
C5_Bar ==
    (Returned /\ NonEmptyInput) =>
        LET k == DistinctCategories
        IN  /\ Emitted("bar") <=> (1 < k /\ k < 15)
            /\ Emitted("bar") => EmittedOnceAt("bar", IF k > 3 THEN 85 ELSE 70)
            /\ k = 5 => EmittedOnceAt("bar", 85)

C5_Witness ==
    /\ Returned /\ NonEmptyInput
    /\ DistinctCategories = 5
    /\ EmittedOnceAt("bar", 85)

\* C6: with the same k (never 0), pie is returned iff 1 < k <= 7, at 75 when
\* k <= 5 and at 60 otherwise; an input with no category or with a single
\* one yields neither bar nor pie.
C6_Pie ==
    (Returned /\ NonEmptyInput) =>
        LET k == DistinctCategories
        IN  /\ k >= 1
            /\ Emitted("pie") <=> (1 < k /\ k <= 7)
            /\ Emitted("pie") => EmittedOnceAt("pie", IF k <= 5 THEN 75 ELSE 60)
            /\ k = 1 => (~Emitted("bar") /\ ~Emitted("pie"))

\* 7 categories: the last count with a pie, at the lower confidence.
C6_Witness ==
    /\ Returned /\ NonEmptyInput
    /\ DistinctCategories = 7
    /\ EmittedOnceAt("pie", 60)

\* C7: area is returned iff a trend is detected and no value is negative,
\* always at 75; so fewer than 6 points give neither area nor line at 90.
C7_Area ==
    Returned =>
        /\ Emitted("area") <=> (detectTrend(data) /\ AllValuesNonNegative)
        /\ Emitted("area") => EmittedOnceAt("area", 75)
        /\ Len(data) < 6 =>
               /\ ~Emitted("area")
               /\ \A i \in Positions("line") : suggestions[i].confidence # 90

\* A trend whose smallest value is exactly 0.
C7_Witness ==
    /\ Returned
    /\ detectTrend(data)
    /\ AllValuesNonNegative /\ \E i \in 1..Len(data) : data[i].value = 0
    /\ EmittedOnceAt("area", 75)

MeansDifferByOverTenth ==
    10 * Abs(LastSum * FirstLen - FirstSum * LastLen) > FirstSum * LastLen

\* C9 as stated: every strictly increasing input of at least 6 points whose
\* first third has a mean > 0 gives line at 90 and an area suggestion.
C9_IncreasingLineArea ==
    (Returned /\ Len(data) >= 6 /\ StrictlyIncreasing /\ FirstSum > 0) =>
        /\ EmittedOnceAt("line", 90)
        /\ Emitted("area")

\* C9 as amended: a strictly increasing input of at least 6 points whose
\* first third has a mean > 0 gives line at 90 exactly when the last third's
\* mean exceeds the first third's by more than 10% of the latter, and an
\* area suggestion exactly when, in addition, its first (smallest) value is
\* not negative.
C9_IncreasingByOverTenth ==
    (Returned /\ Len(data) >= 6 /\ StrictlyIncreasing /\ FirstSum > 0) =>
        /\ EmittedOnceAt("line", 90) <=> MeansDifferByOverTenth
        /\ Emitted("area") <=> (MeansDifferByOverTenth /\ data[1].value >= 0)

C9_Witness ==
    /\ Returned /\ Len(data) >= 6 /\ StrictlyIncreasing /\ FirstSum > 0
    /\ MeansDifferByOverTenth /\ data[1].value >= 0
    /\ EmittedOnceAt("line", 90)
    /\ Emitted("area")

\* C10: suggestions of equal confidence are returned in the order they were
\* pushed (line, bar, pie, area, scatter): line at 85 before bar at 85, pie
\* at 75 before area at 75.
C10_StableTies ==
    Returned =>
        \A i \in 1..Len(suggestions) : \A j \in (i + 1)..Len(suggestions) :
            suggestions[i].confidence = suggestions[j].confidence =>
                PushRank(suggestions[i].type) < PushRank(suggestions[j].type)

\* line and bar both at 85, behind something the sort moved in front.
C10_Witness ==
    /\ Returned
    /\ EmittedOnceAt("line", 85) /\ EmittedOnceAt("bar", 85)
    /\ \E i \in 1..(Len(suggestions) - 1) :
           suggestions[i].type = "line" /\ suggestions[i + 1].type = "bar"

----------------------------------------------------------------------------
(***************************************************************************)
(* Part 2: the series aggregator, aggregateTimeSeriesData of               *)
(* lib/hooks/useTimeSeriesData (src/unnamed/part_004).                     *)
(*                                                                         *)
(* A Date is modelled by its local wall-clock time in hours since          *)
(* 1970-01-01 00:00; the Date getters are the proleptic Gregorian          *)
(* calendar.  A string is the sequence of its characters, so that two keys *)
(* are equal exactly when the template literals give the same text.        *)
(* A value is an exact fraction [num, den], reduced, den > 0.  The label   *)
(* (a locale-dependent text of the timestamp) is left out.                 *)
(***************************************************************************)

\* Longest array given to the aggregator.
MaxAggLen == 3

(* Fractions *)

RECURSIVE GCD(_, _)
GCD(a, b) == IF b = 0 THEN a ELSE GCD(b, a % b)

Rat(n, d) ==
    LET g == GCD(Abs(n), d) IN [num |-> n \div g, den |-> d \div g]

IntRat(n) == [num |-> n, den |-> 1]

\* a + b
RatAdd(a, b) == Rat(a.num * b.den + b.num * a.den, a.den * b.den)

\* a / k for a count k >= 1
RatDivInt(a, k) == Rat(a.num, a.den * k)

(* Strings *)

DigitChars == <<"0", "1", "2", "3", "4", "5", "6", "7", "8", "9">>

RECURSIVE NatStr(_)
NatStr(n) ==
    IF n < 10 THEN <<DigitChars[n + 1]>>
    ELSE NatStr(n \div 10) \o <<DigitChars[(n % 10) + 1]>>

\* `${n}` for an integer n
NumStr(n) == IF n < 0 THEN <<"-">> \o NatStr(-n) ELSE NatStr(n)

(* Dates *)

\* Day number (days since 1970-01-01) of a calendar date; the month is
\* 1..12 and the day of the month may lie outside the month, as in
\* Date.prototype.setDate.
DaysFromCivil(year, month, day) ==
    LET y   == IF month <= 2 THEN year - 1 ELSE year
        era == y \div 400
        yoe == y - era * 400
        mp  == IF month > 2 THEN month - 3 ELSE month + 9
        doy == (153 * mp + 2) \div 5 + day - 1
        doe == yoe * 365 + yoe \div 4 - yoe \div 100 + doy
    IN  era * 146097 + doe - 719468

\* Calendar date of a day number.
CivilFromDays(days) ==
    LET z   == days + 719468
        era == z \div 146097
        doe == z - era * 146097
        yoe == (doe - doe \div 1460 + doe \div 36524 - doe \div 146096) \div 365
        doy == doe - (365 * yoe + yoe \div 4 - yoe \div 100)
        mp  == (5 * doy + 2) \div 153
        d   == doy - (153 * mp + 2) \div 5 + 1
        m   == IF mp < 10 THEN mp + 3 ELSE mp - 9
    IN  [year  |-> yoe + era * 400 + (IF m <= 2 THEN 1 ELSE 0),
         month |-> m,
         day   |-> d]

LocalDay(date) == date \div 24

getFullYear(date) == CivilFromDays(LocalDay(date)).year
\* 0 = January
getMonth(date) == CivilFromDays(LocalDay(date)).month - 1
getDate(date) == CivilFromDays(LocalDay(date)).day
\* 0 = Sunday; 1970-01-01 was a Thursday
getDay(date) == (LocalDay(date) + 4) % 7

\* date.setDate(dayOfMonth): the same year, month and time of day, the day
\* of the month replaced and normalised.
setDate(date, dayOfMonth) ==
    24 * DaysFromCivil(getFullYear(date), getMonth(date) + 1, dayOfMonth)
        + (date % 24)

\* The Date of a local date and hour.
DateAt(year, month, day, hour) == 24 * DaysFromCivil(year, month, day) + hour

(* aggregateTimeSeriesData *)

Dash == <<"-">>

\* category: 'aggregated'
Aggregated == <<"aggregated">>

\* The daily key with getDay() (the day of the week) for getDate().
DailyKeyByWeekday(date) ==
    NumStr(getFullYear(date)) \o Dash \o NumStr(getMonth(date) + 1)
        \o Dash \o NumStr(getDay(date))

\* case 'daily'
DailyKey(date) ==
    NumStr(getFullYear(date)) \o Dash \o NumStr(getMonth(date) + 1)
        \o Dash \o NumStr(getDate(date))

\* case 'monthly'
MonthlyKey(date) ==
    NumStr(getFullYear(date)) \o Dash \o NumStr(getMonth(date) + 1)

\* The weekly case without the copy: startOfWeek is the point's own Date
\* object, which setDate then changes.
WeeklyStepAliased(date) ==
    LET moved == setDate(date, getDate(date) - getDay(date))
    IN  [date |-> moved, startOfWeek |-> moved]

\* The weekly case with the day of the week added instead of subtracted.
WeeklyStepForward(date) ==
    [date        |-> date,
     startOfWeek |-> setDate(date, getDate(date) + getDay(date))]

\* case 'weekly', up to the key: startOfWeek is a new Date, moved back by
\* the day of the week; the point's Date is as it was.
WeeklyStep(date) ==
    [date        |-> date,
     startOfWeek |-> setDate(date, getDate(date) - getDay(date))]

\* The weekly key with the year and month of the observation and the day
\* number date.getDate() - dayOfWeek, not normalised.
WeeklyKeyOfOriginal(date, startOfWeek) ==
    NumStr(getFullYear(date)) \o Dash \o NumStr(getMonth(date) + 1)
        \o Dash \o NumStr(getDate(date) - getDay(date))

\* case 'weekly', the key: year, month and day of startOfWeek.
WeeklyKey(date, startOfWeek) ==
    NumStr(getFullYear(startOfWeek)) \o Dash \o NumStr(getMonth(startOfWeek) + 1)
        \o Dash \o NumStr(getDate(startOfWeek))

\* Position of the group of a key in groupedData, 0 when there is none.
GroupIndex(groups, key) ==
    IF \E g \in 1..Len(groups) : groups[g].key = key
    THEN CHOOSE g \in 1..Len(groups) : groups[g].key = key
    ELSE 0

\* groupedData[key] = {sum: 0, count: 0, timestamp: new Date(date)};
\* members (the positions of the points added) is kept for the properties.
NewGroup(key, date) ==
    [key |-> key, sum |-> IntRat(0), count |-> 0, timestamp |-> date,
     members |-> <<>>]

\* The update of a group that also overwrites its timestamp.
AddToGroupLatest(group, point, i) ==
    [group EXCEPT !.sum = RatAdd(@, point.value), !.count = @ + 1,
                  !.timestamp = point.timestamp,
                  !.members = Append(@, i)]

\* groupedData[key].sum += point.value; groupedData[key].count += 1
AddToGroup(group, point, i) ==
    [group EXCEPT !.sum = RatAdd(@, point.value), !.count = @ + 1,
                  !.members = Append(@, i)]

\* One iteration of the for loop, on point i of st.data.
LoopBody(st, i, granularity) ==
    LET point == st.data[i]
        step  == IF granularity = "weekly" THEN WeeklyStep(point.timestamp)
                 ELSE [date |-> point.timestamp, startOfWeek |-> point.timestamp]
        key   == CASE granularity = "daily"   -> DailyKey(step.date)
                   [] granularity = "weekly"  -> WeeklyKey(step.date, step.startOfWeek)
                   [] granularity = "monthly" -> MonthlyKey(step.date)
        after == [point EXCEPT !.timestamp = step.date]
        g      == GroupIndex(st.groups, key)
        groups == IF g = 0 THEN Append(st.groups, NewGroup(key, step.date))
                  ELSE st.groups
        at     == IF g = 0 THEN Len(groups) ELSE g
    IN  [data   |-> [st.data EXCEPT ![i] = after],
         groups |-> [groups EXCEPT ![at] = AddToGroup(@, after, i)]]

RECURSIVE Loop(_, _, _)
\* for (const point of data), from point i on.  (The state after an
\* iteration is bound as next, so that it is computed once.)
Loop(st, i, granularity) ==
    IF i > Len(st.data) THEN st
    ELSE CHOOSE final \in {Loop(next, i + 1, granularity) :
                              next \in {LoopBody(st, i, granularity)}} : TRUE

\* value: group.sum, without the division.
GroupValueSum(group) == group.sum

\* value: group.sum / group.count
GroupValue(group) == RatDivInt(group.sum, group.count)

RECURSIVE InsertByTimestamp(_, _)
InsertByTimestamp(sorted, x) ==
    IF sorted = <<>> THEN <<x>>
    ELSE IF Head(sorted).timestamp <= x.timestamp
         THEN <<Head(sorted)>> \o InsertByTimestamp(Tail(sorted), x)
         ELSE <<x>> \o sorted

RECURSIVE ObjectKeysByTime(_)
\* The groups in the order of their timestamps.
ObjectKeysByTime(groups) ==
    IF groups = <<>> THEN <<>>
    ELSE InsertByTimestamp(ObjectKeysByTime(SubSeq(groups, 1, Len(groups) - 1)),
                           groups[Len(groups)])

\* Object.keys(groupedData): no key is an array index (each holds a "-"),
\* so the keys come in the order they were created.  The model hands on
\* the groups themselves in that order.
ObjectKeys(groups) == groups

\* The return statement: one point per key of groupedData.
ReturnedPoints(groups) ==
    LET keys == ObjectKeys(groups)
    IN  [j \in 1..Len(keys) |->
            [timestamp |-> keys[j].timestamp,
             value     |-> GroupValue(keys[j]),
             category  |-> Aggregated]]

\* aggregateTimeSeriesData: the caller's array as left by the call, the
\* final groupedData and the array returned.
aggregateTimeSeriesData(pts, granularity) ==
    CHOOSE out \in
        {[data   |-> final.data,
          groups |-> final.groups,
          result |-> ReturnedPoints(final.groups)] :
            final \in {Loop([data |-> pts, groups |-> <<>>], 1, granularity)}} : TRUE

(* The calls *)

Granularities == {"daily", "weekly", "monthly"}

\* Timestamps of the raw observations: the Sunday 2023-12-31, the Monday
\* and (twice) the Tuesday after it, the Monday a week later, and two days
\* whose dates read alike, 2024-1-11 and 2024-11-1.
AggTimes ==
    {DateAt(2023, 12, 31, 10), DateAt(2024, 1, 1, 8), DateAt(2024, 1, 2, 9),
     DateAt(2024, 1, 2, 21), DateAt(2024, 1, 8, 8), DateAt(2024, 1, 11, 12),
     DateAt(2024, 11, 1, 12)}

AggValues == {10, 20}

\* A raw observation; those of value 10 carry a category.
RawPoint(t, v) ==
    [timestamp |-> t, value |-> IntRat(v),
     category  |-> IF v = 10 THEN <<"cpu">> ELSE NoCategory]

RawPoints == {RawPoint(t, v) : t \in AggTimes, v \in AggValues}

AggInit ==
    /\ \E n \in 0..MaxAggLen : aggArg \in [1..n -> RawPoints]
    /\ aggData = aggArg
    /\ aggregation = "none"
    /\ aggGroups = <<>>
    /\ aggResult = <<>>
    /\ aggPc = "call"
    /\ ChartParked
    /\ AnalyticsParked
    /\ MoreParked

\* processedData = aggregateTimeSeriesData(processedData, options.aggregation)
Aggregate(granularity) ==
    /\ aggPc \in {"call", "recall"}
    /\ \E out \in {aggregateTimeSeriesData(aggData, granularity)} :
           /\ aggData' = out.data
           /\ aggGroups' = out.groups
           /\ aggResult' = out.result
    /\ aggregation' = granularity
    /\ aggPc' = IF aggPc = "call" THEN "returned" ELSE "rereturned"
    /\ UNCHANGED aggArg
    /\ UNCHANGED <<chartVars, anVars, moreVars>>

\* The array a daily aggregation returned is aggregated again.
Reaggregate ==
    /\ aggPc = "returned"
    /\ aggregation = "daily"
    /\ aggArg' = aggResult
    /\ aggData' = aggResult
    /\ aggPc' = "recall"
    /\ UNCHANGED <<aggregation, aggGroups, aggResult>>
    /\ UNCHANGED <<chartVars, anVars, moreVars>>

AggNext ==
    \/ \E granularity \in Granularities : Aggregate(granularity)
    \/ Reaggregate

SpecAgg == AggInit /\ [][AggNext]_vars

(* Vocabulary of the aggregator's properties *)

\* A call of the aggregator has returned.
AggReturned == aggPc \in {"returned", "rereturned"}

AggPositions == 1..Len(aggArg)

\* The time of the observation at position i of the array passed.
ArgTime(i) == aggArg[i].timestamp

\* Day number of the Sunday on or before the local calendar date.
SundayOnOrBefore(date) ==
    CHOOSE d \in (LocalDay(date) - 6)..LocalDay(date) : (d + 4) % 7 = 0

\* Two dates lie in one bucket of the granularity: the same local day, the
\* same Sunday-started week, the same month of the same year.
SameBucket(granularity, a, b) ==
    CASE granularity = "daily"   -> LocalDay(a) = LocalDay(b)
      [] granularity = "weekly"  -> SundayOnOrBefore(a) = SundayOnOrBefore(b)
      [] granularity = "monthly" ->
            /\ CivilFromDays(LocalDay(a)).year = CivilFromDays(LocalDay(b)).year
            /\ CivilFromDays(LocalDay(a)).month = CivilFromDays(LocalDay(b)).month

\* The positions of the array passed whose observations lie in the bucket
\* of date t.
BucketOf(t) == {i \in AggPositions : SameBucket(aggregation, ArgTime(i), t)}

\* Position i is the first of its bucket in the array passed.
FirstOfBucket(i) ==
    \A h \in 1..(i - 1) : ~SameBucket(aggregation, ArgTime(h), ArgTime(i))

\* The first position of the array passed that lies in the bucket of t.
FirstIn(t) == CHOOSE i \in BucketOf(t) : \A h \in BucketOf(t) : i <= h

RECURSIVE BucketSum(_, _)
\* The sum of the values at the positions 1..i that lie in the bucket of t,
\* as an unreduced fraction.
BucketSum(t, i) ==
    IF i = 0 THEN [num |-> 0, den |-> 1]
    ELSE CHOOSE total \in
           {IF i \in BucketOf(t)
            THEN [num |-> rest.num * aggArg[i].value.den
                            + aggArg[i].value.num * rest.den,
                  den |-> rest.den * aggArg[i].value.den]
            ELSE rest : rest \in {BucketSum(t, i - 1)}} : TRUE

\* v is the mean of the values of the bucket of t: v = sum / count.
IsBucketMean(v, t) ==
    \E total \in {BucketSum(t, Len(aggArg))} :
        v.num * total.den * Cardinality(BucketOf(t)) = total.num * v.den

\* The group of groupedData that the observation at position i was added to.
GroupsOf(i) ==
    {g \in 1..Len(aggGroups) :
        \E m \in 1..Len(aggGroups[g].members) : aggGroups[g].members[m] = i}

\* The text `${year}-${month}-${day}` of a day number.
DayText(d) ==
    NumStr(CivilFromDays(d).year) \o <<"-">> \o NumStr(CivilFromDays(d).month)
        \o <<"-">> \o NumStr(CivilFromDays(d).day)

\* At most one observation of the array passed per local calendar day.
OnePerDay ==
    \A i, h \in AggPositions : i # h => LocalDay(ArgTime(i)) # LocalDay(ArgTime(h))

(* C11 .. C17: aggregateTimeSeriesData *)

\* C11: for daily, weekly and monthly granularity the array returned holds
\* exactly one observation per bucket that occurs in the array passed, and
\* the value of that observation is the sum of the values of the
\* observations of the bucket divided by their number; two observations of
\* one month with the values 10 and 20 give, under monthly, one observation
\* of value 15.
C11_BucketMeans ==
    AggReturned =>
        /\ \A i \in AggPositions :
              Cardinality({j \in 1..Len(aggResult) :
                  SameBucket(aggregation, aggResult[j].timestamp, ArgTime(i))}) = 1
        /\ \A j \in 1..Len(aggResult) :
              /\ BucketOf(aggResult[j].timestamp) # {}
              /\ IsBucketMean(aggResult[j].value, aggResult[j].timestamp)
        /\ ( /\ aggregation = "monthly"
             /\ Len(aggArg) = 2
             /\ SameBucket("monthly", ArgTime(1), ArgTime(2))
             /\ {aggArg[1].value, aggArg[2].value} = {IntRat(10), IntRat(20)} )
           => /\ Len(aggResult) = 1
              /\ aggResult[1].value = IntRat(15)

\* Two observations of one month, on different days, with the values 10 and
\* 20 were aggregated monthly into one observation of value 15.
C11_Witness ==
    /\ aggPc = "returned"
    /\ aggregation = "monthly"
    /\ Len(aggArg) = 2
    /\ SameBucket("monthly", ArgTime(1), ArgTime(2))
    /\ LocalDay(ArgTime(1)) # LocalDay(ArgTime(2))
    /\ aggArg[1].value = IntRat(10)
    /\ aggArg[2].value = IntRat(20)
    /\ Len(aggResult) = 1
    /\ aggResult[1].value = IntRat(15)

\* C12: the observations returned are ordered by the position, in the
\* array passed, of the first observation of each bucket (the order in
\* which the buckets were first met), whatever the times of the buckets; an
\* array not sorted by time is not sorted by the aggregation.
C12_FirstEncounteredOrder ==
    AggReturned =>
        \A j, k \in 1..Len(aggResult) :
            j < k => FirstIn(aggResult[j].timestamp) < FirstIn(aggResult[k].timestamp)

\* An array whose first observation is the latest was aggregated and the
\* array returned begins with the latest bucket.
C12_Witness ==
    /\ aggPc = "returned"
    /\ Len(aggResult) >= 2
    /\ \A i \in 2..Len(aggArg) : ArgTime(i) < ArgTime(1)
    /\ \A j \in 2..Len(aggResult) : aggResult[j].timestamp < aggResult[1].timestamp
    /\ ~SameBucket(aggregation, aggResult[1].timestamp, aggResult[2].timestamp)

\* C13: the call leaves the array passed and each of its observations as
\* they were, and returns a new array with as many observations as the
\* array passed has distinct buckets: at most as many as were passed, and
\* none for an empty array.
C13_InputUnchanged ==
    AggReturned =>
        /\ aggData = aggArg
        /\ Len(aggResult) = Cardinality({i \in AggPositions : FirstOfBucket(i)})
        /\ Len(aggResult) <= Len(aggArg)
        /\ aggArg = <<>> => aggResult = <<>>

\* A weekly aggregation of observations that are not on Sundays merged two
\* of them and left the array passed as it was.
C13_Witness ==
    /\ aggPc = "returned"
    /\ aggregation = "weekly"
    /\ Len(aggArg) >= 2
    /\ \A i \in AggPositions : getDay(ArgTime(i)) # 0
    /\ Len(aggResult) < Len(aggArg)
    /\ aggData = aggArg

\* C14: each observation returned carries the timestamp of the first
\* observation of its bucket in the array passed (not the start of the
\* bucket, not the timestamp of a later member) and the category
\* 'aggregated', whatever the categories of the members.
C14_FirstTimestamp ==
    AggReturned =>
        /\ Len(aggResult) = Cardinality({i \in AggPositions : FirstOfBucket(i)})
        /\ \A j \in 1..Len(aggResult) :
              /\ BucketOf(aggResult[j].timestamp) # {}
              /\ aggResult[j].timestamp = ArgTime(FirstIn(aggResult[j].timestamp))
              /\ aggResult[j].category = <<"aggregated">>

\* A week bucket with two members of different times and a category of
\* their own: the observation returned has the time of the first, which is
\* later than that of the second and is not midnight of the Sunday.
C14_Witness ==
    /\ aggPc = "returned"
    /\ aggregation = "weekly"
    /\ Len(aggArg) = 2
    /\ Len(aggResult) = 1
    /\ ArgTime(2) < ArgTime(1)
    /\ aggArg[1].category = <<"cpu">>
    /\ aggResult[1].timestamp = ArgTime(1)
    /\ aggResult[1].timestamp # 24 * SundayOnOrBefore(ArgTime(1))
    /\ aggResult[1].category = <<"aggregated">>

\* C15: under weekly granularity two observations fall into one bucket
\* exactly when the Sunday on or before the local calendar date of each is
\* the same day, and the key of the bucket is the text of that Sunday's own
\* year, month and day, also when the Sunday lies in the month or the year
\* before the observation's.
C15_WeeklySundayKey ==
    (AggReturned /\ aggregation = "weekly") =>
        /\ \A i \in AggPositions : Cardinality(GroupsOf(i)) = 1
        /\ \A i, h \in AggPositions :
              (GroupsOf(i) = GroupsOf(h))
                  <=> (SundayOnOrBefore(ArgTime(i)) = SundayOnOrBefore(ArgTime(h)))
        /\ \A i \in AggPositions : \A g \in GroupsOf(i) :
              aggGroups[g].key = DayText(SundayOnOrBefore(ArgTime(i)))

\* The Sunday 2023-12-31 and a day of January 2024 of its week were
\* aggregated weekly into one bucket, of key 2023-12-31.
C15_Witness ==
    /\ aggPc = "returned"
    /\ aggregation = "weekly"
    /\ Len(aggGroups) = 1
    /\ aggGroups[1].key = <<"2", "0", "2", "3", "-", "1", "2", "-", "3", "1">>
    /\ \E i, h \in AggPositions :
          /\ getDay(ArgTime(i)) = 0
          /\ getFullYear(ArgTime(h)) = 2024

\* C16 as stated: under weekly granularity an observation on a Tuesday and
\* an observation on the Monday that follows it (six days later) are
\* aggregated into one bucket.
C16_TuesdayAndFollowingMonday ==
    (AggReturned /\ aggregation = "weekly") =>
        \A i, h \in AggPositions :
            ( /\ getDay(ArgTime(i)) = 2
              /\ LocalDay(ArgTime(h)) = LocalDay(ArgTime(i)) + 6 )
            => GroupsOf(i) = GroupsOf(h)

\* C16, amended: under weekly granularity (weeks start on Sunday) an
\* observation on a Tuesday and an observation on the Monday that follows
\* it are aggregated into two different buckets; a Tuesday and the Monday
\* just before it are aggregated into one bucket, also when the week starts
\* in the previous month.
C16_TuesdayAndMondayBefore ==
    (AggReturned /\ aggregation = "weekly") =>
        \A i, h \in AggPositions :
            getDay(ArgTime(i)) = 2 =>
                /\ LocalDay(ArgTime(h)) = LocalDay(ArgTime(i)) + 6
                      => GroupsOf(i) \cap GroupsOf(h) = {}
                /\ LocalDay(ArgTime(h)) = LocalDay(ArgTime(i)) - 1
                      => GroupsOf(i) = GroupsOf(h)

\* The Tuesday 2024-01-02, the Monday before it and the Monday after it
\* were aggregated weekly: two buckets, the first starting in December.
C16_Witness ==
    /\ aggPc = "returned"
    /\ aggregation = "weekly"
    /\ Len(aggArg) = 3
    /\ getDay(ArgTime(1)) = 2
    /\ LocalDay(ArgTime(2)) = LocalDay(ArgTime(1)) - 1
    /\ LocalDay(ArgTime(3)) = LocalDay(ArgTime(1)) + 6
    /\ Len(aggResult) = 2
    /\ getMonth(24 * SundayOnOrBefore(ArgTime(1))) # getMonth(ArgTime(1))

\* C17: a daily aggregation of an array with at most one observation per
\* local calendar day returns as many observations, with the same values in
\* the same order; and the daily aggregation of an array that a daily
\* aggregation returned changes neither the values nor their number.
C17_DailyIdentity ==
    (AggReturned /\ aggregation = "daily" /\ (OnePerDay \/ aggPc = "rereturned")) =>
        /\ Len(aggResult) = Len(aggArg)
        /\ \A i \in AggPositions : aggResult[i].value = aggArg[i].value

\* A daily aggregation that merged two observations of one day into the
\* mean 15 was aggregated daily again, and 15 came back.
C17_Witness ==
    /\ aggPc = "rereturned"
    /\ aggregation = "daily"
    /\ Len(aggArg) = 2
    /\ aggArg[1].value = IntRat(15)
    /\ aggArg[1].category = <<"aggregated">>
    /\ Len(aggResult) = 2
    /\ aggResult[1].value = IntRat(15)

----------------------------------------------------------------------------
(***************************************************************************)
(* Part 3: the analytics singleton, AnalyticsMiddleware of                 *)
(* lib/middleware/analyticsMiddleware, and the bridge that stores its      *)
(* events, useAnalyticsBridge (src/unnamed/part_008).                      *)
(*                                                                         *)
(* An event is the number of the trackEvent call that made it.  A callback *)
(* is [kind, closure]: "none", the "bridge" handler of one run of the      *)
(* bridge's effect (closure is the number of the run, each run has its own *)
(* pendingEvents), or a "client" callback given by some other caller of    *)
(* initialize, whose promise may be rejected.  The bridge handler catches  *)
(* every error, so its promise is never rejected.                          *)
(*                                                                         *)
(* flush is an async function: it runs up to its await in one step; the    *)
(* rest runs in a later step, FlushResolved or FlushRejected, and other    *)
(* operations may come in between.                                         *)
(***************************************************************************)

\* trackEvent calls, flush calls that reach the try block, runs of the
\* bridge's effect.
MaxEvents == 3
MaxFlushes == 2
MaxClosures == 1

\* batchSize of the bridge (an option; the default is 10)
BatchSizes == {2, 3}

\* sampleRate: 100 of the constructor's defaults
sampleRate == 100

\* Math.random() * 100, which is below 100
Randoms == {0, 99}

NoCallback == [kind |-> "none", closure |-> 0]
ClientCallback == [kind |-> "client", closure |-> 0]
BridgeHandler(c) == [kind |-> "bridge", closure |-> c]

\* The fields and closures the operations work on, as one record.
Now ==
    [events |-> events, isTrackingEnabled |-> isTrackingEnabled,
     flushInterval |-> flushInterval, liveTimers |-> liveTimers,
     trackEventCallback |-> trackEventCallback,
     isInitialized |-> isInitialized, nextEvent |-> nextEvent,
     flushes |-> flushes, delivered |-> delivered,
     closures |-> closures, forwarded |-> forwarded]

\* The next state is m.
Becomes(m) ==
    /\ events' = m.events
    /\ isTrackingEnabled' = m.isTrackingEnabled
    /\ flushInterval' = m.flushInterval
    /\ liveTimers' = m.liveTimers
    /\ trackEventCallback' = m.trackEventCallback
    /\ isInitialized' = m.isInitialized
    /\ nextEvent' = m.nextEvent
    /\ flushes' = m.flushes
    /\ delivered' = m.delivered
    /\ closures' = m.closures
    /\ forwarded' = m.forwarded

(* useAnalyticsBridge: the handler *)

\* handleAnalyticsEvent of effect run c, up to its await: the event is
\* pushed; at batchSize the pending events are taken and handed to
\* supabase.insert or addBulkDataPoints.
handleAnalyticsEvent(m, c, event) ==
    LET pending == Append(m.closures[c].pendingEvents, event)
    IN  IF Len(pending) >= m.closures[c].batchSize
        THEN [m EXCEPT !.closures[c].pendingEvents = <<>>,
                       !.forwarded = Append(@, pending)]
        ELSE [m EXCEPT !.closures[c].pendingEvents = pending]

(* AnalyticsMiddleware *)

\* this._trackEventCallback(event)
CallCallback(m, event) ==
    LET called == [m EXCEPT !.delivered = Append(@, event)]
    IN  IF m.trackEventCallback.kind = "bridge"
        THEN handleAnalyticsEvent(called, m.trackEventCallback.closure, event)
        ELSE called

RECURSIVE CallForEach(_, _, _)
\* for (const event of this._events) promises.push(callback(event)),
\* from position i on
CallForEach(m, queue, i) ==
    IF i > Len(queue) THEN m
    ELSE CHOOSE final \in {CallForEach(next, queue, i + 1) :
                              next \in {CallCallback(m, queue[i])}} : TRUE

\* _shouldSample
shouldSample(random) == random <= sampleRate

\* trackEvent returns undefined and records nothing.
Refused(m, random) == ~m.isTrackingEnabled \/ ~shouldSample(random)

\* trackEvent
trackEvent(m, random) ==
    IF Refused(m, random) THEN m
    ELSE LET fullEvent == m.nextEvent
             pushed == [m EXCEPT !.events = Append(@, fullEvent),
                                 !.nextEvent = @ + 1]
         IN  IF m.trackEventCallback.kind # "none"
             THEN CallCallback(pushed, fullEvent)
             ELSE pushed

\* The flush calls that have failed so far (kept in the record of each
\* flush call for the properties).
Failed(m) == {k \in 1..Len(m.flushes) : m.flushes[k].state = "rejected"}

\* flush, up to its await (or to its end when there is no callback).
flush(m) ==
    IF m.events = <<>> THEN m
    ELSE IF m.trackEventCallback.kind # "none"
    THEN CHOOSE out \in
           {[called EXCEPT !.flushes = Append(@,
                [queued   |-> m.events,
                 passed   |-> SubSeq(called.delivered, Len(m.delivered) + 1,
                                     Len(called.delivered)),
                 callback |-> m.trackEventCallback,
                 failedBefore |-> Failed(m),
                 state    |-> "awaiting"])] :
              called \in {CallForEach(m, m.events, 1)}} : TRUE
    ELSE [m EXCEPT !.events = <<>>,
                   !.flushes = Append(@,
                       [queued |-> m.events, passed |-> <<>>,
                        callback |-> NoCallback,
                        failedBefore |-> Failed(m), state |-> "cleared"])]

\* initialize without the early return of an initialized instance.
initializeAgain(m, browser, callback, random) ==
    CHOOSE out \in
      {[tracked EXCEPT !.flushInterval = "timer",
                       !.liveTimers = @ + 1,
                       !.isInitialized = TRUE] :
         tracked \in {IF browser THEN trackEvent(set, random) ELSE set :
                         set \in {[m EXCEPT !.trackEventCallback = callback]}}} : TRUE

\* initialize; in a browser _setupAutoTracking tracks the first page view.
initialize(m, browser, callback, random) ==
    IF m.isInitialized THEN m
    ELSE CHOOSE out \in
           {[tracked EXCEPT !.flushInterval = "timer",
                            !.liveTimers = @ + 1,
                            !.isInitialized = TRUE] :
              tracked \in {IF browser THEN trackEvent(set, random) ELSE set :
                              set \in {[m EXCEPT !.trackEventCallback = callback]}}} : TRUE

\* dispose
dispose(m) ==
    CHOOSE out \in
      {[flushed EXCEPT !.isInitialized = FALSE] :
         flushed \in {flush(cleared) :
            cleared \in {IF m.flushInterval # "null"
                         THEN [m EXCEPT !.flushInterval = "null",
                                        !.liveTimers = @ - 1]
                         ELSE m}}} : TRUE

(* The operations *)

\* new AnalyticsMiddleware(), no effect of the bridge has run
Constructed ==
    [events |-> <<>>, isTrackingEnabled |-> TRUE, flushInterval |-> "null",
     liveTimers |-> 0, trackEventCallback |-> NoCallback,
     isInitialized |-> FALSE, nextEvent |-> 1, flushes |-> <<>>,
     delivered |-> <<>>, closures |-> <<>>, forwarded |-> <<>>]

\* The state is m.
Is(m) ==
    /\ events = m.events
    /\ isTrackingEnabled = m.isTrackingEnabled
    /\ flushInterval = m.flushInterval
    /\ liveTimers = m.liveTimers
    /\ trackEventCallback = m.trackEventCallback
    /\ isInitialized = m.isInitialized
    /\ nextEvent = m.nextEvent
    /\ flushes = m.flushes
    /\ delivered = m.delivered
    /\ closures = m.closures
    /\ forwarded = m.forwarded

\* The module has been evaluated: the singleton is constructed and, in a
\* browser, initialized without a callback.
AnalyticsInit ==
    /\ isBrowser \in BOOLEAN
    /\ \E random \in Randoms :
          Is(IF isBrowser THEN initialize(Constructed, TRUE, NoCallback, random)
             ELSE Constructed)
    /\ bridgeEffect = [state |-> "none", closure |-> 0]
    /\ lastCleanup = NoCleanup
    /\ anPc = "run"
    /\ ChartParked
    /\ AggParked
    /\ MoreParked

\* What no operation of the analytics part changes.
AnalyticsFrame == UNCHANGED <<isBrowser, anPc, chartVars, aggVars, moreVars>>

\* There is room for one more event, one more flush.
RoomForEvent == nextEvent <= MaxEvents
RoomForFlush == events = <<>> \/ Len(flushes) < MaxFlushes

\* analytics.initialize(callback) by a caller other than the bridge
Initialize(callback, random) ==
    /\ anPc = "run"
    /\ (isBrowser /\ ~isInitialized) => RoomForEvent
    /\ Becomes(initialize(Now, isBrowser, callback, random))
    /\ UNCHANGED <<bridgeEffect, lastCleanup>>
    /\ AnalyticsFrame

\* analytics.trackEvent(...), also through trackPageView and trackError
TrackEvent(random) ==
    /\ anPc = "run"
    /\ RoomForEvent
    /\ Becomes(trackEvent(Now, random))
    /\ UNCHANGED <<bridgeEffect, lastCleanup>>
    /\ AnalyticsFrame

\* analytics.setTrackingEnabled(enabled)
SetTrackingEnabled(enabled) ==
    /\ anPc = "run"
    /\ Becomes([Now EXCEPT !.isTrackingEnabled = enabled])
    /\ UNCHANGED <<bridgeEffect, lastCleanup>>
    /\ AnalyticsFrame

\* The interval timer fires: () => this.flush()
FlushTimer ==
    /\ anPc = "run"
    /\ liveTimers > 0
    /\ RoomForFlush
    /\ Becomes(flush(Now))
    /\ UNCHANGED <<bridgeEffect, lastCleanup>>
    /\ AnalyticsFrame

\* analytics.flush() by a caller
FlushCalled ==
    /\ anPc = "run"
    /\ RoomForFlush
    /\ Becomes(flush(Now))
    /\ UNCHANGED <<bridgeEffect, lastCleanup>>
    /\ AnalyticsFrame

\* flush k goes on after await Promise.all(promises), every promise
\* fulfilled, without clearing the queue.
FlushResolvedKeeping(k) ==
    /\ anPc = "run"
    /\ k \in 1..Len(flushes)
    /\ flushes[k].state = "awaiting"
    /\ Becomes([Now EXCEPT !.flushes[k].state = "resolved"])
    /\ UNCHANGED <<bridgeEffect, lastCleanup>>
    /\ AnalyticsFrame

\* flush k goes on after await Promise.all(promises), every promise
\* fulfilled: this._events = []
FlushResolved(k) ==
    /\ anPc = "run"
    /\ k \in 1..Len(flushes)
    /\ flushes[k].state = "awaiting"
    /\ Becomes([Now EXCEPT !.events = <<>>, !.flushes[k].state = "resolved"])
    /\ UNCHANGED <<bridgeEffect, lastCleanup>>
    /\ AnalyticsFrame

\* flush k with a rejected promise, the catch block also dropping the
\* events that were queued at the call.
FlushRejectedDropping(k) ==
    /\ anPc = "run"
    /\ k \in 1..Len(flushes)
    /\ flushes[k].state = "awaiting"
    /\ flushes[k].callback.kind = "client"
    /\ Becomes([Now EXCEPT
          !.events = SelectSeq(@, LAMBDA e :
                         \A q \in 1..Len(flushes[k].queued) : flushes[k].queued[q] # e),
          !.flushes[k].state = "rejected"])
    /\ UNCHANGED <<bridgeEffect, lastCleanup>>
    /\ AnalyticsFrame

\* flush k goes on after await Promise.all(promises), a promise rejected:
\* the catch block logs the error.
FlushRejected(k) ==
    /\ anPc = "run"
    /\ k \in 1..Len(flushes)
    /\ flushes[k].state = "awaiting"
    /\ flushes[k].callback.kind = "client"
    /\ Becomes([Now EXCEPT !.flushes[k].state = "rejected"])
    /\ UNCHANGED <<bridgeEffect, lastCleanup>>
    /\ AnalyticsFrame

\* analytics.dispose()
Dispose ==
    /\ anPc = "run"
    /\ RoomForFlush
    /\ Becomes(dispose(Now))
    /\ UNCHANGED <<bridgeEffect, lastCleanup>>
    /\ AnalyticsFrame

\* The effect of useAnalyticsBridge runs (mount, or a dependency changed):
\* nothing when not enabled or not connected, else a new pendingEvents and
\* handler, and analytics.initialize(handleAnalyticsEvent).
BridgeEffect(enabled, isConnected, batchSize, random) ==
    /\ anPc = "run"
    /\ bridgeEffect.state = "none"
    /\ IF ~enabled \/ ~isConnected
       THEN /\ bridgeEffect' = [state |-> "inactive", closure |-> 0]
            /\ Becomes(Now)
       ELSE /\ Len(closures) < MaxClosures
            /\ (isBrowser /\ ~isInitialized) => RoomForEvent
            /\ bridgeEffect' = [state |-> "active", closure |-> Len(closures) + 1]
            /\ \E mounted \in
                  {[Now EXCEPT !.closures = Append(@,
                       [pendingEvents |-> <<>>, batchSize |-> batchSize])]} :
                  Becomes(initialize(mounted, isBrowser,
                                     BridgeHandler(Len(closures) + 1), random))
    /\ UNCHANGED lastCleanup
    /\ AnalyticsFrame

\* The cleanup function of the effect (unmount, or before the effect runs
\* again): with pending events, the handler is called with the last one.
BridgeCleanup ==
    /\ anPc = "run"
    /\ bridgeEffect.state = "active"
    /\ LET c == bridgeEffect.closure
           pendingEvents == closures[c].pendingEvents
       IN  IF Len(pendingEvents) > 0
           THEN \E after \in
                   {handleAnalyticsEvent(Now, c, pendingEvents[Len(pendingEvents)])} :
                   /\ Becomes(after)
                   /\ lastCleanup' =
                         [ran |-> TRUE, pending |-> pendingEvents,
                          batchSize |-> closures[c].batchSize,
                          forwarded |-> IF Len(after.forwarded) > Len(forwarded)
                                        THEN after.forwarded[Len(after.forwarded)]
                                        ELSE <<>>,
                          left |-> after.closures[c].pendingEvents]
           ELSE /\ Becomes(Now)
                /\ lastCleanup' =
                      [ran |-> TRUE, pending |-> <<>>,
                       batchSize |-> closures[c].batchSize,
                       forwarded |-> <<>>, left |-> <<>>]
    /\ bridgeEffect' = [state |-> "none", closure |-> 0]
    /\ AnalyticsFrame

\* An effect that returned undefined has no cleanup function.
BridgeEffectDropped ==
    /\ anPc = "run"
    /\ bridgeEffect.state = "inactive"
    /\ bridgeEffect' = [state |-> "none", closure |-> 0]
    /\ Becomes(Now)
    /\ UNCHANGED lastCleanup
    /\ AnalyticsFrame

AnalyticsNext ==
    \/ \E callback \in {NoCallback, ClientCallback}, random \in Randoms :
          Initialize(callback, random)
    \/ \E random \in Randoms : TrackEvent(random)
    \/ \E enabled \in BOOLEAN : SetTrackingEnabled(enabled)
    \/ FlushTimer
    \/ FlushCalled
    \/ \E k \in 1..MaxFlushes : FlushResolved(k)
    \/ \E k \in 1..MaxFlushes : FlushRejected(k)
    \/ Dispose
    \/ \E enabled, isConnected \in BOOLEAN, batchSize \in BatchSizes,
          random \in Randoms :
          BridgeEffect(enabled, isConnected, batchSize, random)
    \/ BridgeCleanup
    \/ BridgeEffectDropped

SpecAnalytics == AnalyticsInit /\ [][AnalyticsNext]_vars

(* Vocabulary of the analytics properties *)

FlushCalls == 1..Len(flushes)

\* The elements of a sequence.
Range(s) == {s[i] : i \in 1..Len(s)}

\* How often e occurs in the sequence s.
Occurrences(s, e) == Cardinality({i \in 1..Len(s) : s[i] = e})

\* The queue holds the events in the order of the trackEvent calls.
QueueInCallOrder ==
    \A i, j \in 1..Len(events) : i < j => events[i] < events[j]

\* This step is a trackEvent that accepted an event.
Accepts == nextEvent' = nextEvent + 1

\* This step is the end of flush call k, fulfilled / rejected.
Resolves(k) == flushes[k].state = "awaiting" /\ flushes'[k].state = "resolved"
Rejects(k) == flushes[k].state = "awaiting" /\ flushes'[k].state = "rejected"

(* C18 .. C20: the event queue and the bridge's batches *)

\* C18: the middleware queues the accepted events in the order of the
\* trackEvent calls; a flush with a callback passes every queued event to
\* the callback, in queue order, in that one call, and when all its
\* callback invocations succeed it leaves the queue empty.
C18_FlushInOrder ==
    /\ [](anPc = "run" =>
            /\ QueueInCallOrder
            /\ \A k \in FlushCalls :
                  flushes[k].callback.kind # "none"
                      => flushes[k].passed = flushes[k].queued)
    /\ [][ /\ Accepts => events' = Append(events, nextEvent)
           /\ \A k \in FlushCalls : Resolves(k) => events' = <<>> ]_vars

\* A flush found two events queued, passed both in order to a callback that
\* succeeded, and the queue is empty.
C18_Witness ==
    /\ anPc = "run"
    /\ events = <<>>
    /\ \E k \in FlushCalls :
          /\ flushes[k].state = "resolved"
          /\ Len(flushes[k].queued) >= 2
          /\ flushes[k].passed = flushes[k].queued

\* C19 as stated: when a callback invocation fails during flush the batch
\* is dropped and not retried: a flush that starts after the failure finds
\* none of the events of the failed flush in the queue and passes none of
\* them to the callback.
C19_FailedBatchDropped ==
    anPc = "run" =>
        \A m \in FlushCalls : \A k \in flushes[m].failedBefore :
            /\ Range(flushes[k].queued) \cap Range(flushes[m].queued) = {}
            /\ Range(flushes[k].queued) \cap Range(flushes[m].passed) = {}

\* C19, amended: when a callback invocation fails during flush the error is
\* logged and the queue is left as it is: the failing flush removes no
\* event, and a flush that starts after the failure passes to its callback
\* every event of the failed flush that it still finds queued.
C19_FailedBatchKept ==
    /\ [][ \A k \in FlushCalls : Rejects(k) => events' = events ]_vars
    /\ [](anPc = "run" =>
            \A m \in FlushCalls : \A k \in flushes[m].failedBefore :
                flushes[m].callback.kind # "none" =>
                    Range(flushes[k].queued) \cap Range(flushes[m].queued)
                        \subseteq Range(flushes[m].passed))

\* A flush failed, and the flush that started after it passed the same
\* events to the callback again.
C19_Witness ==
    /\ anPc = "run"
    /\ \E m \in FlushCalls : \E k \in flushes[m].failedBefore :
          /\ flushes[k].queued # <<>>
          /\ flushes[m].callback.kind = "client"
          /\ Range(flushes[k].queued) \subseteq Range(flushes[m].passed)
          /\ Range(flushes[k].passed) = Range(flushes[k].queued)

\* C20 as stated: when the cleanup of the bridge's effect runs with k
\* pending events, 0 < k < batchSize, these k events are handed to the
\* persistence layer, each exactly once, and none stays behind.
C20_CleanupForwardsPending ==
    ( /\ anPc = "run"
      /\ lastCleanup.ran
      /\ 0 < Len(lastCleanup.pending)
      /\ Len(lastCleanup.pending) < lastCleanup.batchSize )
    => /\ \A e \in Range(lastCleanup.pending) :
             Occurrences(lastCleanup.forwarded, e)
                 = Occurrences(lastCleanup.pending, e)
       /\ Range(lastCleanup.forwarded) \subseteq Range(lastCleanup.pending)
       /\ lastCleanup.left = <<>>

(* C23, C25, C30: the callback and the timer of the singleton *)

\* C23 as stated: after the effect of the bridge has run in a browser,
\* enabled and connected, the handler of that run is the track callback of
\* the singleton, and every event accepted from then on is passed to it
\* (it is in the handler's pendingEvents or in a batch handed on).
C23_BridgeHandlerIsCallback ==
    (anPc = "run" /\ isBrowser /\ bridgeEffect.state = "active") =>
        /\ trackEventCallback = BridgeHandler(bridgeEffect.closure)
        /\ events # <<>> =>
              events[Len(events)] \in
                  Range(closures[bridgeEffect.closure].pendingEvents)
                      \cup UNION {Range(forwarded[b]) : b \in 1..Len(forwarded)}

\* C25 as stated: with callbacks that always succeed (no flush has failed),
\* every event passed to a callback was passed exactly once, whatever the
\* sequence of trackEvent, timer flush, explicit flush and dispose.
C25_DeliveredOnce ==
    (anPc = "run" /\ Failed(Now) = {}) =>
        \A e \in Range(delivered) : Occurrences(delivered, e) = 1

\* C30: at most one flush timer exists and one exists exactly when the
\* middleware is initialized; initialize on an initialized instance makes
\* no timer and changes neither the callback nor the queue; dispose cancels
\* the timer, starts one flush of the queued events and leaves the instance
\* uninitialized.
C30_OneTimer ==
    /\ [](anPc = "run" =>
            /\ liveTimers <= 1
            /\ (liveTimers = 1) <=> isInitialized
            /\ (flushInterval = "timer") <=> isInitialized)
    /\ [][ /\ ( /\ isInitialized
                /\ \E callback \in {NoCallback, ClientCallback}, random \in Randoms :
                      Initialize(callback, random) )
              => UNCHANGED <<liveTimers, flushInterval, trackEventCallback,
                             events, isInitialized>>
           /\ Dispose =>
                 /\ liveTimers' = 0
                 /\ flushInterval' = "null"
                 /\ ~isInitialized'
                 /\ Len(flushes') = Len(flushes) + (IF events = <<>> THEN 0 ELSE 1) ]_vars

\* In a browser the singleton was disposed with an event queued and
\* initialized again, with a callback: one flush has started, one timer
\* lives.
C30_Witness ==
    /\ anPc = "run"
    /\ isBrowser
    /\ isInitialized
    /\ liveTimers = 1
    /\ trackEventCallback = ClientCallback
    /\ Len(flushes) >= 1

----------------------------------------------------------------------------
(***************************************************************************)
(* Part 4: detectOutliers of lib/utils/chartDetection                      *)
(* (src/unnamed/part_005), called on its own with arrays that hold a very  *)
(* large value among small ones.                                           *)
(***************************************************************************)

\* Longest array given to detectOutliers.
MaxOutLen == 10

\* Values of the points: zero, a small and a very large one.
OutLevels == {0, 10, 1000}

OutPoint(v) == [timestamp |-> 0, value |-> v, category |-> NoCategory]

OutPoints == {OutPoint(v) : v \in OutLevels}

\* The parts of the state of the first three specifications, parked.
FirstParked == ChartParked /\ AggParked /\ AnalyticsParked
firstVars == <<chartVars, aggVars, anVars>>

OutInit ==
    /\ \E n \in 0..MaxOutLen : outData \in [1..n -> OutPoints]
    /\ outCount = 0
    /\ outPc = "call"
    /\ FirstParked
    /\ FwParked
    /\ LaterParked

\* outlierCount = detectOutliers(data)
CountOutliers ==
    /\ outPc = "call"
    /\ outCount' = detectOutliers(outData)
    /\ outPc' = "returned"
    /\ UNCHANGED outData
    /\ UNCHANGED <<firstVars, fwVars, laterVars>>

OutNext == CountOutliers

SpecOutliers == OutInit /\ [][OutNext]_vars

\* The values of the array passed, their sum and the sum of their squares.
OutValues == [i \in 1..Len(outData) |-> outData[i].value]
OutSum == SumSeq(OutValues)
OutSquares == SumSeq([i \in 1..Len(outData) |-> OutValues[i] * OutValues[i]])

\* The values that lie more than two population standard deviations from
\* the population mean.  With n values of sum S and sum of squares Q the
\* mean is S/n and the variance Q/n - (S/n)^2, so that |v - S/n| > 2 sigma
\* is (n*v - S)^2 > 4 * (n*Q - S^2).
FarValues ==
    {i \in 1..Len(outData) :
        (Len(outData) * OutValues[i] - OutSum) * (Len(outData) * OutValues[i] - OutSum)
            > 4 * (Len(outData) * OutSquares - OutSum * OutSum)}

\* C22: detectOutliers returns 0 for fewer than 4 observations and
\* otherwise the number of values that lie strictly more than 2 population
\* standard deviations from the population mean; nine values 10 and one
\* value 1000 give at least 1, equal values give 0.
C22_OutlierCount ==
    outPc = "returned" =>
        /\ Len(outData) < 4 => outCount = 0
        /\ Len(outData) >= 4 => outCount = Cardinality(FarValues)
        /\ ( /\ Len(outData) = 10
             /\ Cardinality({i \in 1..10 : OutValues[i] = 10}) = 9
             /\ Cardinality({i \in 1..10 : OutValues[i] = 1000}) = 1 )
           => outCount >= 1
        /\ (\A i, j \in 1..Len(outData) : OutValues[i] = OutValues[j])
           => outCount = 0

\* Nine values 10 and one value 1000: one outlier.
C22_Witness ==
    /\ outPc = "returned"
    /\ Len(outData) = 10
    /\ Cardinality({i \in 1..10 : OutValues[i] = 10}) = 9
    /\ Cardinality({i \in 1..10 : OutValues[i] = 1000}) = 1
    /\ outCount = 1

----------------------------------------------------------------------------
(***************************************************************************)
(* Part 5: detectFrameworkFromPackageJson of lib/utils/framework-detection.*)
(* A package name is the sequence of its characters, so that startsWith is *)
(* computed on the text.  A field of package.json (dependencies, ...) is   *)
(* absent or an object; of an object only the set of its keys matters.     *)
(***************************************************************************)

\* Most names in dependencies; devDependencies and peerDependencies hold
\* at most one less.
MaxDeps == 2

(* Package names *)

\* next
Next == <<"n", "e", "x", "t">>
\* @next/font
NextFont == <<"@", "n", "e", "x", "t", "/", "f", "o", "n", "t">>
\* next-auth
NextAuth == <<"n", "e", "x", "t", "-", "a", "u", "t", "h">>
\* @remix-run/node
RemixNode == <<"@", "r", "e", "m", "i", "x", "-", "r", "u", "n", "/", "n", "o", "d", "e">>
\* nuxt
Nuxt == <<"n", "u", "x", "t">>
\* @nuxt/kit
NuxtKit == <<"@", "n", "u", "x", "t", "/", "k", "i", "t">>
\* @sveltejs/kit
SvelteKit == <<"@", "s", "v", "e", "l", "t", "e", "j", "s", "/", "k", "i", "t">>
\* @angular/core
AngularCore == <<"@", "a", "n", "g", "u", "l", "a", "r", "/", "c", "o", "r", "e">>
\* astro
Astro == <<"a", "s", "t", "r", "o">>
\* expo
Expo == <<"e", "x", "p", "o">>
\* expo-router
ExpoRouter == <<"e", "x", "p", "o", "-", "r", "o", "u", "t", "e", "r">>
\* vue
Vue == <<"v", "u", "e">>
\* react-scripts
ReactScripts == <<"r", "e", "a", "c", "t", "-", "s", "c", "r", "i", "p", "t", "s">>
\* vite
Vite == <<"v", "i", "t", "e">>
\* react
React == <<"r", "e", "a", "c", "t">>

\* The names a package.json may list: for each framework a name that is
\* tested by equality or one that is tested by its prefix, and next-auth,
\* which only looks like one.
PackageNames ==
    {Next, NextFont, NextAuth, RemixNode, Nuxt,
     NuxtKit, SvelteKit, AngularCore, Astro, Expo,
     ExpoRouter, Vue, ReactScripts, Vite, React}

(* The prefixes and names the code tests *)

AtNext == <<"@", "n", "e", "x", "t", "/">>
AtRemixRun == <<"@", "r", "e", "m", "i", "x", "-", "r", "u", "n", "/">>
AtNuxt == <<"@", "n", "u", "x", "t", "/">>
AtAngular == <<"@", "a", "n", "g", "u", "l", "a", "r", "/">>
AtAstrojs == <<"@", "a", "s", "t", "r", "o", "j", "s", "/">>
AtExpo == <<"@", "e", "x", "p", "o", "/">>
ExpoDash == <<"e", "x", "p", "o", "-">>
AtSveltejsKit == SvelteKit

\* dep.startsWith(prefix)
startsWith(dep, prefix) ==
    Len(dep) >= Len(prefix) /\ SubSeq(dep, 1, Len(prefix)) = prefix

\* {...packageJson.dependencies, ...packageJson.devDependencies,
\*  ...packageJson.peerDependencies}, then Object.keys: a field that is
\* not there spreads to nothing.
DepNames(pj) ==
    (IF pj.dependencies.present THEN pj.dependencies.names ELSE {})
        \cup (IF pj.devDependencies.present THEN pj.devDependencies.names ELSE {})
        \cup (IF pj.peerDependencies.present THEN pj.peerDependencies.names ELSE {})

\* detectFrameworkFromPackageJson
detectFrameworkFromPackageJson(pj) ==
    IF pj.absent \/ (~pj.dependencies.present /\ ~pj.devDependencies.present)
    THEN "unknown"
    ELSE LET depNames == DepNames(pj)
         IN  IF \E dep \in depNames : dep = Next \/ startsWith(dep, AtNext)
             THEN "nextjs"
             ELSE IF \E dep \in depNames : startsWith(dep, AtRemixRun)
             THEN "remix"
             ELSE IF \E dep \in depNames : dep = Nuxt \/ startsWith(dep, AtNuxt)
             THEN "nuxt"
             ELSE IF \E dep \in depNames : dep = AtSveltejsKit
             THEN "sveltekit"
             ELSE IF \E dep \in depNames : startsWith(dep, AtAngular)
             THEN "angular"
             ELSE IF \E dep \in depNames : dep = Astro \/ startsWith(dep, AtAstrojs)
             THEN "astro"
             ELSE IF \E dep \in depNames :
                        \/ dep = Expo
                        \/ startsWith(dep, AtExpo)
                        \/ startsWith(dep, ExpoDash)
             THEN "expo"
             ELSE IF \E dep \in depNames : dep = Vue
             THEN "vue"
             ELSE IF \E dep \in depNames : dep = ReactScripts
             THEN "react"
             ELSE IF (\E dep \in depNames : dep = Vite)
                        /\ (\E dep \in depNames : dep = React)
             THEN "vite"
             ELSE "unknown"

(* The call *)

RECURSIVE KeySets(_)
\* The sets of up to most package names.
KeySets(most) ==
    IF most = 0 THEN {{}}
    ELSE KeySets(most - 1)
            \cup {keys \cup {dep} : keys \in KeySets(most - 1), dep \in PackageNames}

\* The objects a field of package.json may be: up to most keys.
DepsObjects(most) == {[present |-> TRUE, names |-> keys] : keys \in KeySets(most)}

FwInit ==
    /\ \E absent \in BOOLEAN :
       \E dependencies \in {NoDeps} \cup DepsObjects(MaxDeps) :
       \E devDependencies \in {NoDeps} \cup DepsObjects(MaxDeps - 1) :
       \E peerDependencies \in {NoDeps} \cup DepsObjects(MaxDeps - 1) :
          /\ absent => /\ dependencies = NoDeps
                       /\ devDependencies = NoDeps
                       /\ peerDependencies = NoDeps
          /\ packageJson = [absent |-> absent, dependencies |-> dependencies,
                            devDependencies |-> devDependencies,
                            peerDependencies |-> peerDependencies]
    /\ framework = "none"
    /\ fwPc = "call"
    /\ FirstParked
    /\ OutParked
    /\ LaterParked

\* detectFrameworkFromPackageJson(packageJson)
DetectFramework ==
    /\ fwPc = "call"
    /\ framework' = detectFrameworkFromPackageJson(packageJson)
    /\ fwPc' = "returned"
    /\ UNCHANGED packageJson
    /\ UNCHANGED <<firstVars, outVars, laterVars>>

FwNext == DetectFramework

SpecFramework == FwInit /\ [][FwNext]_vars

(* Vocabulary of the framework property *)

\* The framework a package name stands for, by the list of the claim:
\* 'next' or an '@next/' package, ..., and "part" for the two names that
\* count only together.
FrameworkOf(dep) ==
    CASE dep \in {Next, NextFont}     -> "nextjs"
      [] dep = RemixNode              -> "remix"
      [] dep \in {Nuxt, NuxtKit}      -> "nuxt"
      [] dep = SvelteKit              -> "sveltekit"
      [] dep = AngularCore            -> "angular"
      [] dep = Astro                  -> "astro"
      [] dep \in {Expo, ExpoRouter}   -> "expo"
      [] dep = Vue                    -> "vue"
      [] dep = ReactScripts           -> "react"
      [] dep \in {Vite, React}        -> "part"
      [] OTHER                        -> "no framework"

\* The fixed priority of the frameworks.
Priority ==
    <<"nextjs", "remix", "nuxt", "sveltekit", "angular", "astro", "expo",
      "vue", "react", "vite">>

\* The names listed call for the framework.
CallsFor(listed, fw) ==
    IF fw = "vite" THEN Vite \in listed /\ React \in listed
    ELSE \E dep \in listed : FrameworkOf(dep) = fw

\* The first framework of the priority that the names listed call for.
FirstByPriority(listed) ==
    IF \E r \in 1..Len(Priority) : CallsFor(listed, Priority[r])
    THEN Priority[CHOOSE r \in 1..Len(Priority) :
                     /\ CallsFor(listed, Priority[r])
                     /\ \A q \in 1..(r - 1) : ~CallsFor(listed, Priority[q])]
    ELSE "unknown"

\* Every name that package.json lists, in any of the three fields.
Listed ==
    packageJson.dependencies.names \cup packageJson.devDependencies.names
        \cup packageJson.peerDependencies.names

(* C21 *)

\* C21 as stated: the framework returned is decided by the fixed priority
\* over the union of dependencies, devDependencies and peerDependencies: a
\* package.json that lists 'next' or an '@next/' package is 'nextjs'
\* whatever else it lists, then remix, nuxt, sveltekit, angular, astro,
\* expo, vue, react, vite (vite and react), else 'unknown'.
C21_PriorityOverUnion ==
    fwPc = "returned" => framework = FirstByPriority(Listed)

----------------------------------------------------------------------------
(***************************************************************************)
(* Part 6: the Supabase connection store (lib/stores/supabase.ts) and the  *)
(* hook useSupabaseConnection (lib/hooks/useSupabaseConnection.ts).        *)
(*                                                                         *)
(* JavaScript values are records tagged by their type in the field t.  An   *)
(* object is a function from the names of its own properties to values:    *)
(* a property that is there with the value undefined (as `stats:           *)
(* undefined` makes one) is in the domain, a property that is not there is *)
(* not.  Reading either gives undefined, spreading copies only the first.  *)
(* The state of the atom and the argument of updateSupabaseConnection are  *)
(* such functions; nested objects are wrapped as values.                   *)
(*                                                                         *)
(* An async function is one action up to its await and one action per      *)
(* outcome of the awaited fetch; the fetches in flight are kept in         *)
(* requests and may complete in any order.                                 *)
(***************************************************************************)

\* Most fetches awaiting a response at a time.
MaxRequests == 2

Undefined == [t |-> "undefined"]
Null == [t |-> "null"]
Str(s) == [t |-> "string", v |-> s]
Bool(b) == [t |-> "boolean", b |-> b]
Obj(o) == [t |-> "object", o |-> o]
Arr(a) == [t |-> "array", a |-> a]

IsUndefined(v) == v.t = "undefined"

\* !!v
Truthy(v) ==
    \/ v.t \in {"object", "array"}
    \/ v.t = "string" /\ v.v # ""
    \/ v.t = "boolean" /\ v.b

\* o.f for an object o
Get(o, f) == IF f \in DOMAIN o THEN o[f] ELSE Undefined

\* o.f = v
Set(o, f, v) == [g \in DOMAIN o \cup {f} |-> IF g = f THEN v ELSE o[g]]

\* { ...a, ...b }
Spread(a, b) ==
    [g \in DOMAIN a \cup DOMAIN b |-> IF g \in DOMAIN b THEN b[g] ELSE a[g]]

\* JSON.stringify: a property whose value is undefined is left out, at every
\* depth.  The text is kept as the value it denotes.
RECURSIVE JSONValue(_)
JSONValue(v) ==
    CASE v.t = "object" ->
           Obj([f \in {g \in DOMAIN v.o : ~IsUndefined(v.o[g])} |->
                   JSONValue(v.o[f])])
      [] v.t = "array" -> Arr([i \in DOMAIN v.a |-> JSONValue(v.a[i])])
      [] OTHER -> v

JSONstringify(v) == [text |-> JSONValue(v)]

JSONparse(text) == text.text

\* localStorage.getItem(key) !== null
hasItem(storage, key) == key \in DOMAIN storage

setItem(storage, key, text) ==
    [k \in DOMAIN storage \cup {key} |-> IF k = key THEN text ELSE storage[k]]

removeItem(storage, key) == [k \in DOMAIN storage \ {key} |-> storage[k]]

\* new Date().toISOString(): the clock is not modelled, every reading is
\* the same text.
NowISO == Str("now")

\* Access tokens the user types, project ids the user selects.
Tokens == {"", "t1"}
ProjectIds == {"", "p1", "p2"}

\* What /api/supabase answers: a user or none, stats or none.  The account
\* has the project p1.
ServerUser == Obj([id |-> Str("u1"), email |-> Str("u1@example.com")])
ServerProject(id) ==
    Obj([id |-> Str(id), name |-> Str("name of " \o id), region |-> Str("eu"),
         organization_id |-> Str("org"), status |-> Str("active"),
         created_at |-> Str("then")])
ServerStats ==
    Obj([projects |-> Arr(<<ServerProject("p1")>>), totalProjects |-> Str("1")])
ServerUsers == {Undefined, ServerUser}
ServerStatses == {Undefined, ServerStats}

\* initialState, lines 35-66, for a localStorage without 'supabase_connection'
ManagedState ==
    [user |-> Obj([email |-> Str("Managed User"), role |-> Str("Admin"),
                   id |-> Str("managed"), created_at |-> Str(""),
                   last_sign_in_at |-> Str("")]),
     token |-> Str("managed-token"),
     stats |-> Undefined,
     selectedProjectId |-> Str("managed"),
     isConnected |-> Bool(TRUE),
     project |-> Obj([id |-> Str("managed"),
                      name |-> Str("Managed Supabase Instance"),
                      region |-> Str("managed"),
                      organization_id |-> Str("managed"),
                      status |-> Str("active"), created_at |-> NowISO]),
     credentials |-> Obj([supabaseUrl |-> Str("env url"),
                          anonKey |-> Str("env key")]),
     managedInstance |-> Bool(TRUE)]

DefaultState ==
    [user |-> Null, token |-> Str(""), stats |-> Undefined,
     selectedProjectId |-> Undefined, isConnected |-> Bool(FALSE),
     project |-> Undefined, managedInstance |-> Bool(FALSE)]

\* initialState for a given localStorage, lines 31-74
initialState(managed, storage) ==
    IF managed THEN ManagedState
    ELSE IF hasItem(storage, "supabase_connection")
    THEN LET parsed == JSONparse(storage["supabase_connection"]).o
         IN  IF /\ hasItem(storage, "supabaseCredentials")
                /\ ~Truthy(Get(parsed, "credentials"))
             THEN Set(parsed, "credentials",
                      JSONparse(storage["supabaseCredentials"]))
             ELSE parsed
    ELSE DefaultState

\* currentState.stats?.projects
statsProjects(state) ==
    IF Get(state, "stats").t = "object"
    THEN Get(Get(state, "stats").o, "projects")
    ELSE Undefined

\* projects.find((project) => project.id === id)
find(projects, id) ==
    IF \E i \in DOMAIN projects.a : Get(projects.a[i].o, "id") = Str(id)
    THEN projects.a[CHOOSE i \in DOMAIN projects.a :
                       /\ Get(projects.a[i].o, "id") = Str(id)
                       /\ \A j \in 1..(i - 1) :
                             Get(projects.a[j].o, "id") # Str(id)]
    ELSE Undefined

\* lines 110-117.  The ids of the model are shorter than 8 characters, so
\* substring(0, 8) is the whole id.
PlaceholderProject(id) ==
    Obj([id |-> Str(id), name |-> Str("Project " \o id \o "..."),
         region |-> Str("unknown"), organization_id |-> Str(""),
         status |-> Str("active"), created_at |-> NowISO])

\* lines 90-93: the update is skipped
Skips(managed, currentState, connection) ==
    /\ managed
    /\ Truthy(Get(currentState, "managedInstance"))
    /\ ~Truthy(Get(connection, "managedInstance"))

\* lines 95-99
WithIsConnected(currentState, connection) ==
    IF \/ ~IsUndefined(Get(connection, "user"))
       \/ ~IsUndefined(Get(connection, "token"))
    THEN LET newUser == IF ~IsUndefined(Get(connection, "user"))
                        THEN Get(connection, "user")
                        ELSE Get(currentState, "user")
             newToken == IF ~IsUndefined(Get(connection, "token"))
                         THEN Get(connection, "token")
                         ELSE Get(currentState, "token")
         IN  Set(connection, "isConnected",
                 Bool(Truthy(newUser) /\ Truthy(newToken)))
    ELSE connection

\* lines 101-123
WithProject(currentState, connection) ==
    LET selectedProjectId == Get(connection, "selectedProjectId")
    IN  IF IsUndefined(selectedProjectId) THEN connection
        ELSE IF Truthy(selectedProjectId) /\ Truthy(statsProjects(currentState))
        THEN LET selectedProject ==
                     find(statsProjects(currentState), selectedProjectId.v)
             IN  IF Truthy(selectedProject)
                 THEN Set(connection, "project", selectedProject)
                 ELSE Set(connection, "project",
                          PlaceholderProject(selectedProjectId.v))
        ELSE IF selectedProjectId = Str("")
        THEN Set(Set(connection, "project", Undefined),
                 "credentials", Undefined)
        ELSE connection

\* lines 131-133: the condition under which the state is saved
Saves(connection) ==
    \/ Truthy(Get(connection, "user"))
    \/ Truthy(Get(connection, "token"))
    \/ ~IsUndefined(Get(connection, "selectedProjectId"))
    \/ Truthy(Get(connection, "credentials"))

\* lines 128-145, with the credentials entry left behind on removal
persistLeavingCredentials(managed, storage, connection, newState) ==
    IF ~managed /\ Saves(connection)
    THEN LET saved == setItem(storage, "supabase_connection",
                              JSONstringify(Obj(newState)))
         IN  IF Truthy(Get(newState, "credentials"))
             THEN setItem(saved, "supabaseCredentials",
                          JSONstringify(Get(newState, "credentials")))
             ELSE removeItem(saved, "supabaseCredentials")
    ELSE IF ~managed
    THEN removeItem(storage, "supabase_connection")
    ELSE storage

\* lines 128-145
persist(managed, storage, connection, newState) ==
    IF ~managed /\ Saves(connection)
    THEN LET saved == setItem(storage, "supabase_connection",
                              JSONstringify(Obj(newState)))
         IN  IF Truthy(Get(newState, "credentials"))
             THEN setItem(saved, "supabaseCredentials",
                          JSONstringify(Get(newState, "credentials")))
             ELSE removeItem(saved, "supabaseCredentials")
    ELSE IF ~managed
    THEN removeItem(removeItem(storage, "supabase_connection"),
                    "supabaseCredentials")
    ELSE storage

\* The argument as updateSupabaseConnection leaves it (it assigns to its
\* properties), lines 95-123.
Completed(currentState, connection) ==
    WithProject(currentState, WithIsConnected(currentState, connection))

\* updateSupabaseConnection(connection): the state and the storage after
\* the call, and the argument as the call left it.
updateSupabaseConnection(managed, currentState, storage, connection) ==
    IF Skips(managed, currentState, connection)
    THEN [state |-> currentState, storage |-> storage,
          connection |-> connection, skipped |-> TRUE]
    ELSE LET completed == Completed(currentState, connection)
             newState == Spread(currentState, completed)
         IN  [state |-> newState,
              storage |-> persist(managed, storage, completed, newState),
              connection |-> completed, skipped |-> FALSE]

\* A fetch awaiting its response.
Request(kind, projectId, token) ==
    [kind |-> kind, projectId |-> projectId, token |-> token]

RemoveAt(s, k) == SubSeq(s, 1, k - 1) \o SubSeq(s, k + 1, Len(s))

RoomForRequest == Len(requests) < MaxRequests

\* The hook's `connection`: the value of the atom at the last render.  The
\* component renders again after every change of the atom, so a handler
\* that is called reads the current value; a handler that awaits keeps the
\* value it was called with.
connection == supabaseConnection

\* The hook's isConnected, line 189
isConnected ==
    \/ HAS_MANAGED_SUPABASE
    \/ Truthy(Get(connection, "user")) /\ Truthy(Get(connection, "token"))

SupInit ==
    /\ HAS_MANAGED_SUPABASE \in BOOLEAN
    /\ localStorage = <<>>
    /\ supabaseConnection = initialState(HAS_MANAGED_SUPABASE, localStorage)
    /\ isConnecting = FALSE
    /\ isFetchingStats = FALSE
    /\ isFetchingApiKeys = FALSE
    /\ requests = <<>>
    /\ lastUpdate = NoUpdate
    /\ supPc = "run"
    /\ FirstParked /\ OutParked /\ FwParked /\ TsParked

SupFrame ==
    UNCHANGED <<HAS_MANAGED_SUPABASE, supPc, firstVars, outVars, fwVars, tsVars>>

\* The call updateSupabaseConnection(asPassed) as a step of a handler.
Update(asPassed) ==
    \E out \in {updateSupabaseConnection(HAS_MANAGED_SUPABASE,
                                         supabaseConnection, localStorage,
                                         asPassed)} :
       /\ supabaseConnection' = out.state
       /\ localStorage' = out.storage
       /\ lastUpdate' = [called |-> TRUE, skipped |-> out.skipped,
                         connection |-> asPassed]

NoUpdateCall == UNCHANGED <<supabaseConnection, localStorage, lastUpdate>>

\* fetchProjectApiKeys(projectId, token) up to its await, lines 186-204
StartApiKeys(projectId, token) ==
    IF HAS_MANAGED_SUPABASE
    THEN UNCHANGED <<isFetchingApiKeys, requests>>
    ELSE /\ isFetchingApiKeys' = TRUE
         /\ requests' = Append(requests, Request("apiKeys", projectId, token))

\* fetchSupabaseStats(token) up to its await, lines 148-166
StartStats(token) ==
    IF HAS_MANAGED_SUPABASE
    THEN UNCHANGED <<isFetchingStats, requests>>
    ELSE /\ isFetchingStats' = TRUE
         /\ requests' = Append(requests, Request("stats", "", token))

\* The page is loaded again: the module of the store is evaluated with the
\* localStorage the last page left, lines 31-85.  The fetches of the last
\* page are gone.
LoadStore ==
    /\ supPc = "run"
    /\ \E loaded \in {initialState(HAS_MANAGED_SUPABASE, localStorage)} :
          /\ supabaseConnection' = loaded
          /\ IF /\ ~HAS_MANAGED_SUPABASE
                /\ Truthy(Get(loaded, "token"))
                /\ ~Truthy(Get(loaded, "stats"))
             THEN /\ isFetchingStats' = TRUE
                  /\ requests' = <<Request("stats", "", Get(loaded, "token").v)>>
             ELSE /\ isFetchingStats' = FALSE
                  /\ requests' = <<>>
    /\ isConnecting' = FALSE
    /\ isFetchingApiKeys' = FALSE
    /\ lastUpdate' = NoUpdate
    /\ UNCHANGED localStorage
    /\ SupFrame

\* The argument of the mount effect's update in managed mode, lines 26-61
ManagedConnection ==
    [user |-> Obj([id |-> Str("managed"), email |-> Str("managed@bolt.diy"),
                   role |-> Str("admin"), created_at |-> NowISO,
                   last_sign_in_at |-> NowISO]),
     token |-> Str("managed"),
     stats |-> Obj([projects |->
                        Arr(<<Obj([id |-> Str("managed"),
                                   name |-> Str("Managed Instance"),
                                   organization_id |-> Str("bolt-diy"),
                                   region |-> Str("us-east-1"),
                                   created_at |-> NowISO,
                                   status |-> Str("active")])>>),
                    totalProjects |-> Str("1")]),
     selectedProjectId |-> Str("managed"),
     project |-> Obj([id |-> Str("managed"), name |-> Str("Managed Instance"),
                      organization_id |-> Str("bolt-diy"),
                      region |-> Str("us-east-1"), created_at |-> NowISO,
                      status |-> Str("active")]),
     credentials |-> Obj([anonKey |-> Str("env key"),
                          supabaseUrl |-> Str("env url")])]

\* `parsed` of the mount effect, lines 65-73
MountParsed(storage) ==
    LET parsed == JSONparse(storage["supabase_connection"]).o
    IN  IF /\ hasItem(storage, "supabaseCredentials")
           /\ ~Truthy(Get(parsed, "credentials"))
        THEN Set(parsed, "credentials",
                 JSONparse(storage["supabaseCredentials"]))
        ELSE parsed

\* The effect of useSupabaseConnection on mount, lines 23-81
MountEffect ==
    /\ supPc = "run"
    /\ IF HAS_MANAGED_SUPABASE
       THEN /\ Update(ManagedConnection)
            /\ UNCHANGED <<isFetchingApiKeys, requests>>
       ELSE IF hasItem(localStorage, "supabase_connection")
       THEN \E parsed \in {MountParsed(localStorage)} :
            \E left \in {Completed(supabaseConnection, parsed)} :
               /\ Update(parsed)
               /\ IF /\ Truthy(Get(left, "token"))
                     /\ Truthy(Get(left, "selectedProjectId"))
                     /\ ~Truthy(Get(left, "credentials"))
                  THEN /\ RoomForRequest
                       /\ StartApiKeys(Get(left, "selectedProjectId").v,
                                       Get(left, "token").v)
                  ELSE UNCHANGED <<isFetchingApiKeys, requests>>
       ELSE /\ NoUpdateCall
            /\ UNCHANGED <<isFetchingApiKeys, requests>>
    /\ UNCHANGED <<isConnecting, isFetchingStats>>
    /\ SupFrame

\* handleConnect up to its await, lines 83-102
HandleConnect ==
    /\ supPc = "run"
    /\ IF HAS_MANAGED_SUPABASE
       THEN UNCHANGED <<isConnecting, requests>>
       ELSE /\ RoomForRequest
            /\ isConnecting' = TRUE
            /\ requests' = Append(requests,
                                  Request("connect", "",
                                          Get(connection, "token").v))
    /\ NoUpdateCall
    /\ UNCHANGED <<isFetchingStats, isFetchingApiKeys>>
    /\ SupFrame

\* handleConnect after a response that is ok, lines 104-120 and 128-130
ConnectResolved(k, user, stats) ==
    /\ supPc = "run"
    /\ k \in 1..Len(requests) /\ requests[k].kind = "connect"
    /\ Update([user |-> user, token |-> Str(requests[k].token),
               stats |-> stats])
    /\ isConnecting' = FALSE
    /\ requests' = RemoveAt(requests, k)
    /\ UNCHANGED <<isFetchingStats, isFetchingApiKeys>>
    /\ SupFrame

\* handleConnect after a response that is not ok or a failed fetch,
\* lines 106-108 and 121-130
ConnectRejected(k) ==
    /\ supPc = "run"
    /\ k \in 1..Len(requests) /\ requests[k].kind = "connect"
    /\ Update([user |-> Null, token |-> Str("")])
    /\ isConnecting' = FALSE
    /\ requests' = RemoveAt(requests, k)
    /\ UNCHANGED <<isFetchingStats, isFetchingApiKeys>>
    /\ SupFrame

\* handleDisconnect, lines 132-141
HandleDisconnect ==
    /\ supPc = "run"
    /\ IF HAS_MANAGED_SUPABASE
       THEN NoUpdateCall
       ELSE Update([user |-> Null, token |-> Str("")])
    /\ UNCHANGED <<isConnecting, isFetchingStats, isFetchingApiKeys, requests>>
    /\ SupFrame

\* selectProject(projectId) up to its await, lines 143-158
SelectProject(projectId) ==
    /\ supPc = "run"
    /\ LET currentState == supabaseConnection
           projectData ==
               IF projectId # "" /\ Truthy(statsProjects(currentState))
               THEN find(statsProjects(currentState), projectId)
               ELSE Undefined
       IN  /\ Update([selectedProjectId |-> Str(projectId),
                      project |-> projectData])
           /\ IF projectId # "" /\ Truthy(Get(currentState, "token"))
              THEN /\ HAS_MANAGED_SUPABASE \/ RoomForRequest
                   /\ StartApiKeys(projectId, Get(currentState, "token").v)
              ELSE UNCHANGED <<isFetchingApiKeys, requests>>
    /\ UNCHANGED <<isConnecting, isFetchingStats>>
    /\ SupFrame

\* fetchProjectApiKeys after a response that is ok, lines 206-228 and
\* 232-234; anon: the keys have one named 'anon' or 'public'
ApiKeysResolved(k, anon) ==
    /\ supPc = "run"
    /\ k \in 1..Len(requests) /\ requests[k].kind = "apiKeys"
    /\ IF anon
       THEN Update([credentials |->
                       Obj([anonKey |-> Str("key of " \o requests[k].projectId),
                            supabaseUrl |->
                                Str("https://" \o requests[k].projectId
                                               \o ".supabase.co")])])
       ELSE NoUpdateCall
    /\ isFetchingApiKeys' = FALSE
    /\ requests' = RemoveAt(requests, k)
    /\ UNCHANGED <<isConnecting, isFetchingStats>>
    /\ SupFrame

\* fetchProjectApiKeys after a response that is not ok, lines 206-208 and
\* 229-234
ApiKeysRejected(k) ==
    /\ supPc = "run"
    /\ k \in 1..Len(requests) /\ requests[k].kind = "apiKeys"
    /\ NoUpdateCall
    /\ isFetchingApiKeys' = FALSE
    /\ requests' = RemoveAt(requests, k)
    /\ UNCHANGED <<isConnecting, isFetchingStats>>
    /\ SupFrame

\* fetchSupabaseStats after a response that is ok, lines 168-177 and
\* 181-183
StatsResolved(k, user, stats) ==
    /\ supPc = "run"
    /\ k \in 1..Len(requests) /\ requests[k].kind = "stats"
    /\ Update([user |-> user, stats |-> stats])
    /\ isFetchingStats' = FALSE
    /\ requests' = RemoveAt(requests, k)
    /\ UNCHANGED <<isConnecting, isFetchingApiKeys>>
    /\ SupFrame

\* fetchSupabaseStats after a response that is not ok, lines 168-170 and
\* 178-183
StatsRejected(k) ==
    /\ supPc = "run"
    /\ k \in 1..Len(requests) /\ requests[k].kind = "stats"
    /\ NoUpdateCall
    /\ isFetchingStats' = FALSE
    /\ requests' = RemoveAt(requests, k)
    /\ UNCHANGED <<isConnecting, isFetchingApiKeys>>
    /\ SupFrame

\* updateToken(token), line 188
UpdateToken(token) ==
    /\ supPc = "run"
    /\ Update(Set(connection, "token", Str(token)))
    /\ UNCHANGED <<isConnecting, isFetchingStats, isFetchingApiKeys, requests>>
    /\ SupFrame

SupNext ==
    \/ LoadStore
    \/ MountEffect
    \/ HandleConnect
    \/ \E k \in 1..MaxRequests : \E user \in ServerUsers :
       \E stats \in ServerStatses : ConnectResolved(k, user, stats)
    \/ \E k \in 1..MaxRequests : ConnectRejected(k)
    \/ HandleDisconnect
    \/ \E projectId \in ProjectIds : SelectProject(projectId)
    \/ \E k \in 1..MaxRequests : \E anon \in BOOLEAN : ApiKeysResolved(k, anon)
    \/ \E k \in 1..MaxRequests : ApiKeysRejected(k)
    \/ \E k \in 1..MaxRequests : \E user \in ServerUsers :
       \E stats \in ServerStatses : StatsResolved(k, user, stats)
    \/ \E k \in 1..MaxRequests : StatsRejected(k)
    \/ \E token \in Tokens : UpdateToken(token)

SpecSupabase == SupInit /\ [][SupNext]_vars

----------------------------------------------------------------------------
(* The claims about the connection store, as formulas *)

\* The URL fetchProjectApiKeys builds for a project, line 216.
UrlOf(projectId) == Str("https://" \o projectId \o ".supabase.co")

NothingStored == DOMAIN localStorage = {}

\* The argument of the last update carries none of a truthy user, a truthy
\* token, a defined selectedProjectId, credentials.
CarriesNothing(asPassed) ==
    /\ ~Truthy(Get(asPassed, "user"))
    /\ ~Truthy(Get(asPassed, "token"))
    /\ IsUndefined(Get(asPassed, "selectedProjectId"))
    /\ ~Truthy(Get(asPassed, "credentials"))

\* C24: in managed mode the stored connection is never overridden: after
\* any sequence of hook operations (mount effect, handleConnect,
\* handleDisconnect, selectProject, updateToken with any string) the state
\* of the store has isConnected = true and managedInstance = true with the
\* initial managed token, and localStorage is untouched.
C24_ManagedNeverOverridden ==
    (supPc = "run" /\ HAS_MANAGED_SUPABASE) =>
        /\ Get(supabaseConnection, "isConnected") = Bool(TRUE)
        /\ Get(supabaseConnection, "managedInstance") = Bool(TRUE)
        /\ Get(supabaseConnection, "token") = ManagedState.token
        /\ NothingStored

\* C26: in non-managed mode, under any interleaving of selectProject calls
\* and the completions of their fetchProjectApiKeys requests, whenever the
\* store holds credentials and a non-empty selectedProjectId, the
\* credentials' supabaseUrl is the URL of the selected project.
C26_CredentialsOfSelectedProject ==
    ( /\ supPc = "run" /\ ~HAS_MANAGED_SUPABASE
      /\ Truthy(Get(supabaseConnection, "credentials"))
      /\ Truthy(Get(supabaseConnection, "selectedProjectId")) ) =>
        Get(Get(supabaseConnection, "credentials").o, "supabaseUrl")
            = UrlOf(Get(supabaseConnection, "selectedProjectId").v)

\* C28: in non-managed mode, from the default disconnected state, after any
\* sequence of handleConnect, handleDisconnect, updateToken, selectProject,
\* fetchSupabaseStats and fetchProjectApiKeys completions, the store has
\* isConnected = (user is neither null nor undefined and token is not
\* empty).
C28_IsConnectedIffUserAndToken ==
    (supPc = "run" /\ ~HAS_MANAGED_SUPABASE) =>
        Get(supabaseConnection, "isConnected")
            = Bool(/\ Truthy(Get(supabaseConnection, "user"))
                   /\ Truthy(Get(supabaseConnection, "token")))

\* C29: in non-managed mode, after every updateSupabaseConnection call: if
\* localStorage holds 'supabase_connection', its value is the serialization
\* of the state just stored; 'supabaseCredentials' is there exactly when
\* 'supabase_connection' is there and the stored state has credentials (and
\* is then their serialization); and an update that carries none of a
\* truthy user, a truthy token, a defined selectedProjectId or credentials
\* removes both entries.
C29_StorageFollowsState ==
    (supPc = "run" /\ ~HAS_MANAGED_SUPABASE /\ lastUpdate.called) =>
        /\ hasItem(localStorage, "supabase_connection") =>
              localStorage["supabase_connection"]
                  = JSONstringify(Obj(supabaseConnection))
        /\ hasItem(localStorage, "supabaseCredentials") <=>
              /\ hasItem(localStorage, "supabase_connection")
              /\ Truthy(Get(supabaseConnection, "credentials"))
        /\ hasItem(localStorage, "supabaseCredentials") =>
              localStorage["supabaseCredentials"]
                  = JSONstringify(Get(supabaseConnection, "credentials"))
        /\ CarriesNothing(lastUpdate.connection) => NothingStored

\* C29's cases happen: a disconnect that removes both entries of a saved
\* connection with credentials ...
C29_Witness ==
    /\ supPc = "run" /\ ~HAS_MANAGED_SUPABASE /\ lastUpdate.called
    /\ lastUpdate.connection = [user |-> Null, token |-> Str("")]
    /\ Truthy(Get(supabaseConnection, "credentials"))
    /\ Truthy(Get(supabaseConnection, "selectedProjectId"))
    /\ NothingStored

----------------------------------------------------------------------------
(***************************************************************************)
(* Part 7: the data fetching of useTimeSeriesData (lib/hooks/              *)
(* useTimeSeriesData, src/unnamed/part_004) with the realtime timer of     *)
(* TimeSeriesChart (src/unnamed/part_000).                                 *)
(*                                                                         *)
(* fetchData and refetch are async: each is one action up to its first     *)
(* await and one action per outcome of what it awaits.  Every call that    *)
(* reaches its try block is entered in fetches with the options of the     *)
(* render it was made in, and keeps its place there when it ends; its      *)
(* number is its position.  The rows a query returns are not modelled: the *)
(* data a fetch sets is named by the fetch and its options.  addDataPoint  *)
(* and addBulkDataPoints are not part of the model.                        *)
(***************************************************************************)

\* Most fetches started.
MaxFetches == 3

\* The values the options of the hook take: what the dependency array of
\* the effect compares.
OptionVersions == {1, 2}

Fetch(kind, options, stage) ==
    [kind |-> kind, options |-> options, stage |-> stage]

\* The fetch awaits ensureTimeSeriesTableExists or its query.
InFlight(fetch) == fetch.stage \in {"table", "query"}

RoomForFetch == Len(fetches) < MaxFetches

\* fetchData() of a render with the given options and connection, up to its
\* first await, lines 38-51 and 58-85
fetchData(options, connected) ==
    IF ~connected
    THEN /\ loading' = FALSE
         /\ UNCHANGED <<tsError, fetches>>
    ELSE /\ RoomForFetch
         /\ loading' = TRUE
         /\ tsError' = 0
         /\ fetches' = Append(fetches,
                              Fetch("fetchData", options,
                                    IF ~tableCreated THEN "table" ELSE "query"))

TsInit ==
    /\ tsOptions \in OptionVersions
    /\ tsConnected \in BOOLEAN
    /\ tsData = NoData
    /\ loading = TRUE
    /\ tsError = 0
    /\ tableCreated = FALSE
    /\ fetches = <<>>
    /\ enableRealtime \in BOOLEAN
    /\ tsPc = "mount"
    /\ FirstParked /\ OutParked /\ FwParked /\ SupParked

TsFrame == UNCHANGED <<enableRealtime, firstVars, outVars, fwVars, supVars>>

\* The effects of the first render: useManagedSupabase starts
\* checkConnection (which is over at once without a managed instance),
\* useTimeSeriesData calls fetchData.
MountEffects ==
    /\ tsPc = "mount"
    /\ fetchData(tsOptions, tsConnected)
    /\ tsPc' = IF tsConnected THEN "checking" ELSE "run"
    /\ UNCHANGED <<tsOptions, tsConnected, tsData, tableCreated>>
    /\ TsFrame

\* checkSupabaseConnection() resolves (useManagedSupabase, lines 17-25): a
\* change of isConnected renders again and the effect calls fetchData.
CheckResolved(connected) ==
    /\ tsPc = "checking"
    /\ tsPc' = "run"
    /\ tsConnected' = connected
    /\ IF connected # tsConnected
       THEN fetchData(tsOptions, connected)
       ELSE UNCHANGED <<loading, tsError, fetches>>
    /\ UNCHANGED <<tsOptions, tsData, tableCreated>>
    /\ TsFrame

\* A render with other options: the effect calls fetchData, lines 37-124.
OptionsChange(options) ==
    /\ tsPc \in {"checking", "run"}
    /\ options # tsOptions
    /\ tsOptions' = options
    /\ fetchData(options, tsConnected)
    /\ UNCHANGED <<tsConnected, tsData, tableCreated, tsPc>>
    /\ TsFrame

\* The realtime timer of TimeSeriesChart fires: refetch() up to its await,
\* part_000 lines 179-190 and part_004 lines 226-262
Refetch ==
    /\ tsPc \in {"checking", "run"}
    /\ enableRealtime
    /\ IF ~tsConnected
       THEN UNCHANGED <<loading, tsError, fetches>>
       ELSE /\ RoomForFetch
            /\ loading' = TRUE
            /\ tsError' = 0
            /\ fetches' = Append(fetches, Fetch("refetch", tsOptions, "query"))
    /\ UNCHANGED <<tsOptions, tsConnected, tsData, tableCreated, tsPc>>
    /\ TsFrame

\* ensureTimeSeriesTableExists() resolves for fetch k, lines 49-56 and
\* 103-108
TableResolved(k, created) ==
    /\ k \in 1..Len(fetches) /\ fetches[k].stage = "table"
    /\ tableCreated' = TRUE
    /\ IF created
       THEN /\ fetches' = [fetches EXCEPT ![k].stage = "query"]
            /\ UNCHANGED <<loading, tsError>>
       ELSE /\ fetches' = [fetches EXCEPT ![k].stage = "error"]
            /\ tsError' = k
            /\ loading' = FALSE
    /\ UNCHANGED <<tsOptions, tsConnected, tsData, tsPc>>
    /\ TsFrame

\* The data a fetch sets: the rows of its query, mapped and aggregated
\* under its options, lines 91-102.
processedData(k) == [fetch |-> k, options |-> fetches[k].options]

\* The query of fetch k resolves, lines 85-108 and 262-291; outcome: "data"
\* (rows), "empty" (neither rows nor an error), "error".
QueryResolved(k, outcome) ==
    /\ k \in 1..Len(fetches) /\ fetches[k].stage = "query"
    /\ fetches' = [fetches EXCEPT ![k].stage = outcome]
    /\ tsData' = IF outcome = "data" THEN processedData(k) ELSE tsData
    /\ tsError' = IF outcome = "error" THEN k ELSE tsError
    /\ loading' = FALSE
    /\ UNCHANGED <<tsOptions, tsConnected, tableCreated, tsPc>>
    /\ TsFrame

TsNext ==
    \/ MountEffects
    \/ \E connected \in BOOLEAN : CheckResolved(connected)
    \/ \E options \in OptionVersions : OptionsChange(options)
    \/ Refetch
    \/ \E k \in 1..MaxFetches : \E created \in BOOLEAN : TableResolved(k, created)
    \/ \E k \in 1..MaxFetches :
       \E outcome \in {"data", "empty", "error"} : QueryResolved(k, outcome)

SpecTimeSeries == TsInit /\ [][TsNext]_vars

\* Every fetch started has ended with rows.
AllCompleted ==
    /\ fetches # <<>>
    /\ \A k \in 1..Len(fetches) : fetches[k].stage = "data"

\* C27: when several fetches of useTimeSeriesData overlap and all of them
\* complete, data holds the result of the most recently started fetch and
\* loading is false (a response of an earlier fetch that arrives later does
\* not overwrite the newer result), and loading is never false while a
\* fetch is still in flight.
C27_LatestFetchWins ==
    tsPc # "parked" =>
        /\ (\E k \in 1..Len(fetches) : InFlight(fetches[k])) => loading
        /\ AllCompleted =>
              /\ tsData = processedData(Len(fetches))
              /\ ~loading

====
